---- MODULE Spec2Model ----
(***************************************************************************)
(* Model of the Connection Multiplexer of openpocket                       *)
(* (src/src/core/gateway/GatewayClient.ts).                                *)
(*                                                                         *)
(* The client runs on a single-threaded event loop.  A step of the model   *)
(* is one of                                                               *)
(*   - a call by the application (connect, disconnect, request, onEvent,   *)
(*     an unsubscribe closure),                                            *)
(*   - a transport callback (onopen, onerror, onmessage, onclose) or the   *)
(*     retry timer callback: these are macrotasks and run only when the    *)
(*     microtask queue mq is empty,                                        *)
(*   - the resumption of an `await` (a microtask, taken from mq in FIFO    *)
(*     order), or the completion of the application's parameter builder.   *)
(* Request ids (`${now()}_${randomId()}`) are modelled as fresh: the i-th  *)
(* call of request() gets id i.  createWebSocket is assumed not to throw.  *)
(*                                                                         *)
(* The module also models the chat screen that consumes the `chat` events  *)
(* (src/src/screens/internal/ChatScreen.tsx, core/chat/ChatService.ts).    *)
(* the device identity store (core/security/deviceIdentity.ts), the        *)
(* builder of the handshake parameters (core/security/connectionSecrets.ts)*)
(* and the conversion of a failed response into a rejection.               *)
(* Each part has its own next-state relation; the variables of the other   *)
(* parts stay as constructed.                                              *)
(***************************************************************************)
EXTENDS Integers, Sequences, FiniteSets, TLC

\* ---- bounds of the model ----
MaxSockets == 2      \* transports created (connection attempts)
MaxUserReqs == 1     \* request() calls made by the application
MaxHs == 1           \* handshake coroutines started by connect.challenge
MaxFrames == 2       \* event frames dispatched
MaxPayload == 2      \* distinct payload values of a frame
MaxListeners == 2    \* distinct listener functions
MaxRuns == 2         \* chat runs started by the chat screen
MaxChatEvents == 3   \* chat events delivered to the chat screen
MaxIdCalls == 3      \* calls of loadOrCreateDeviceIdentity / persistDeviceToken

\* ---- program constants: DEFAULT_RECONNECT ----
InitialDelayMs == 1000
MaxDelayMs == 15000
Factor == 2

Payloads == 1..MaxPayload
Listeners == 1..MaxListeners
EventNames == {"connect.challenge", "chat"}
ListenKeys == EventNames \cup {"*"}

VARIABLES
    \* fields of GatewayClient
    reconnectEnabled,   \* options.reconnect.enabled
    socket,             \* this.socket: 0 = null, else index into socks
    reconnectTimer,     \* this.reconnectTimer: 0 = null, else the armed delay
    reconnectAttempt,
    shouldReconnect,
    connectInput,       \* FALSE = null
    isReconnectFlow,
    status,
    pendingRequests,    \* keys of the pendingRequests map
    eventListeners,     \* event name -> listeners in insertion order
    \* objects the client creates
    socks,              \* transports + the closure of their openAndHandshake
    reqs,               \* the promise of every request() call
    hs,                 \* handshake coroutines (the async IIFE of onmessage)
    mq,                 \* microtask queue: awaits ready to resume
    timerDue,           \* the scheduled timeout has neither fired nor been cleared
    \* observation of the run
    deliveries,         \* listener invocations, in order
    frames,             \* number of event frames dispatched so far
    closures,           \* <<event, listener>> for which onEvent returned a closure
    subs,               \* <<event, listener>> subscribed and not unsubscribed since
    afterDisconnect,    \* the application's last connect()/disconnect() was disconnect()
    lossCount,          \* attempts lost since the last successful handshake
    retryDue,           \* a loss has happened and no new attempt was started since
    \* refs and state of ChatScreen
    activeRunId,        \* activeRunIdRef.current: 0 = null
    streamText,         \* streamTextRef.current and the streamText state
    messages,           \* the messages state: records [role, body]
    isStreaming,
    errorMessage,
    isSending,
    sendCall,           \* sendMessage() is suspended in `await service.send`
    abortCall,          \* abortMessage() is suspended in `await service.abort`
    runs,               \* runs the gateway has started for the screen so far
    chatEvents,         \* chat events delivered so far
    \* observation of the chat run
    tracked,            \* the run started last and not yet ended by a terminal event
    fragments,          \* the delta texts of the tracked run, concatenated
    runBuffer,          \* the buffer as it was after the last delta of the tracked run
    sendRace,           \* the last chat.send: its run, whether its ack and its terminal event were handled
    \* device identity
    store,              \* the item DEVICE_IDENTITY_KEY of the secure store
    held,               \* identities the callers got from load / persist
    lastLoad,           \* result of the last loadOrCreateDeviceIdentity, store before/after
    idCalls,            \* calls made so far
    seed0,              \* the seed of the first usable record the store held (0 = none yet)
    tokenSeen,          \* the store has held a deviceToken since seed0 was set
    \* handshake parameters
    cpInput,            \* input of buildGatewayOperatorConnectParams
    cpBuilt,            \* what it returned or threw
    logged,             \* what the handshake wrote to the log sink
    connectSent,        \* params of the connect request sent for the challenge
    \* failed responses
    resError,           \* a response packet and whether its request is pending
    rejection,          \* how the request's promise was settled
    connectionError,    \* the connectionError state of LoginScreen
    \* sessions service
    remoteRows,         \* the rows sessions.list answers with
    pinsItem,           \* the item SESSION_PINS_KEY of the secure store
    labelsItem,         \* the item SESSION_LOCAL_LABELS_KEY of the secure store
    listed,             \* the last listSessions call: search term, result, items read
    lastLocal,          \* the last local mutation: the call and the items before it
    gatewayCalls,       \* methods the service has requested from the gateway
    listRequests,       \* the params of each sessions.list request, with the query's gatewayParams
    inflight,           \* calls of setPinned / togglePinned / setLocalSessionLabel, step by step
    writes,             \* the store.setItem calls those calls have made, in order
    store0,             \* the pins and labels items before the first of those calls
    \* chat service
    svcSubs,            \* onChatEvent subscriptions, in registration order
    svcArrived,         \* events the event source has emitted, in order
    svcDelivered,       \* listener invocations: <<subscription, arrival>>, in order
    svcSent,            \* chat.send requests made by send()
    \* the client a screen has initialized
    authClosure,        \* what the buildConnectParams closure of connectInput captured
    authStored,         \* the deviceToken of the stored identity record
    authHandshakes      \* the handshakes the client has performed, in order

gatewayVars == <<reconnectEnabled, socket, reconnectTimer, reconnectAttempt, shouldReconnect,
          connectInput, isReconnectFlow, status, pendingRequests, eventListeners,
          socks, reqs, hs, mq, timerDue, deliveries, frames, closures, subs, afterDisconnect,
          lossCount, retryDue>>

chatVars == <<activeRunId, streamText, messages, isStreaming, errorMessage, isSending,
              sendCall, abortCall, runs, chatEvents, tracked, fragments, runBuffer,
              sendRace>>

identityVars == <<store, held, lastLoad, idCalls, seed0, tokenSeen>>

paramVars == <<cpInput, cpBuilt, logged, connectSent>>

errorVars == <<resError, rejection, connectionError>>

sessionVars == <<remoteRows, pinsItem, labelsItem, listed, lastLocal, gatewayCalls,
                 listRequests, inflight, writes, store0>>

serviceVars == <<svcSubs, svcArrived, svcDelivered, svcSent>>

authVars == <<authClosure, authStored, authHandshakes>>

vars == <<gatewayVars, chatVars, identityVars, paramVars, errorVars, sessionVars,
          serviceVars, authVars>>

\* The state as one record, so that the methods compose as in the source.
St == [reconnectEnabled |-> reconnectEnabled, socket |-> socket,
       reconnectTimer |-> reconnectTimer, reconnectAttempt |-> reconnectAttempt,
       shouldReconnect |-> shouldReconnect, connectInput |-> connectInput,
       isReconnectFlow |-> isReconnectFlow, status |-> status,
       pendingRequests |-> pendingRequests, eventListeners |-> eventListeners,
       socks |-> socks, reqs |-> reqs, hs |-> hs, mq |-> mq, timerDue |-> timerDue,
       deliveries |-> deliveries, frames |-> frames, closures |-> closures,
       subs |-> subs,
       afterDisconnect |-> afterDisconnect,
       lossCount |-> lossCount, retryDue |-> retryDue]

Commit(n) ==
    /\ reconnectEnabled' = n.reconnectEnabled
    /\ socket' = n.socket
    /\ reconnectTimer' = n.reconnectTimer
    /\ reconnectAttempt' = n.reconnectAttempt
    /\ shouldReconnect' = n.shouldReconnect
    /\ connectInput' = n.connectInput
    /\ isReconnectFlow' = n.isReconnectFlow
    /\ status' = n.status
    /\ pendingRequests' = n.pendingRequests
    /\ eventListeners' = n.eventListeners
    /\ socks' = n.socks
    /\ reqs' = n.reqs
    /\ hs' = n.hs
    /\ mq' = n.mq
    /\ timerDue' = n.timerDue
    /\ deliveries' = n.deliveries
    /\ frames' = n.frames
    /\ closures' = n.closures
    /\ subs' = n.subs
    /\ afterDisconnect' = n.afterDisconnect
    /\ lossCount' = n.lossCount
    /\ retryDue' = n.retryDue
    /\ UNCHANGED <<chatVars, identityVars, paramVars, errorVars, sessionVars, serviceVars, authVars>>

Min(a, b) == IF a <= b THEN a ELSE b

RECURSIVE Pow(_, _)
Pow(b, e) == IF e <= 0 THEN 1 ELSE b * Pow(b, e - 1)

\* Math.min(initialDelayMs * factor ** (attempt - 1), maxDelayMs)
BackoffDelay(attempt) == Min(InitialDelayMs * Pow(Factor, attempt - 1), MaxDelayMs)

\* ---- promises ----

\* Calling resolve/reject of a request's promise: only the first call settles it.
SettleReq(r, st, val, err) ==
    [r EXCEPT !.settles = @ + 1,
              !.state = IF r.state = "pending" THEN st ELSE @,
              !.val = IF r.state = "pending" THEN val ELSE @,
              !.err = IF r.state = "pending" THEN err ELSE @]

\* The handshake coroutines suspended in `await this.request("connect", ...)` on
\* one of the pending requests ids, as microtasks in the order of the pending
\* map (insertion order, which is the order of the ids).
RECURSIVE Waiters(_, _, _)
Waiters(c, ids, id) ==
    IF id > Len(c.reqs) THEN <<>>
    ELSE LET w == {h \in DOMAIN c.hs : c.hs[h].pc = "await" /\ c.hs[h].req = id}
         IN (IF id \in ids /\ c.reqs[id].state = "pending" /\ w # {}
             THEN <<[k |-> "hs", i |-> CHOOSE h \in w : TRUE]>> ELSE <<>>)
            \o Waiters(c, ids, id + 1)

\* resolve(hello) of the promise of openAndHandshake; resumes connect().
ResolveOpen(c, s, val) ==
    IF c.socks[s].open # "pending" THEN c
    ELSE [c EXCEPT !.socks[s].open = "resolved", !.socks[s].openVal = val,
                   !.mq = Append(@, [k |-> "conn", i |-> s])]

\* reject(error) of the promise of openAndHandshake; resumes connect().
RejectOpen(c, s) ==
    IF c.socks[s].open # "pending" THEN c
    ELSE [c EXCEPT !.socks[s].open = "rejected",
                   !.mq = Append(@, [k |-> "conn", i |-> s])]

\* The attempt on transport s is lost (observation only): its transport fired
\* onclose, or fired onerror before the handshake was done, or its handshake
\* coroutine threw before the handshake was done, or the catch block of a
\* handshake coroutine tore the transport down.
Loss(c, s) ==
    IF c.socks[s].lost THEN c
    ELSE [c EXCEPT !.socks[s].lost = TRUE, !.lossCount = @ + 1,
                   !.retryDue = c.shouldReconnect /\ c.reconnectEnabled]

\* ---- private methods of GatewayClient ----

SetStatus(c, st) == [c EXCEPT !.status = st]

ClearReconnectTimer(c) ==
    IF c.reconnectTimer = 0 THEN c
    ELSE [c EXCEPT !.timerDue = FALSE, !.reconnectTimer = 0]

DisconnectSocket(c) ==
    IF c.socket = 0 THEN c
    ELSE [c EXCEPT !.socks[c.socket].attached = FALSE,
                   !.socks[c.socket].ready = 3,
                   !.socket = 0]

RejectAllPending(c, message) ==
    [c EXCEPT !.reqs = [i \in DOMAIN c.reqs |->
                          IF i \in c.pendingRequests
                          THEN SettleReq(c.reqs[i], "rejected", 0, message)
                          ELSE c.reqs[i]],
              !.mq = @ \o Waiters(c, c.pendingRequests, 1),
              !.pendingRequests = {}]

\* mutant: the retry is scheduled without looking at shouldReconnect
ScheduleReconnect_IgnoresIntent(c) ==
    IF ~c.reconnectEnabled \/ ~c.connectInput THEN c
    ELSE LET c1 == ClearReconnectTimer(c)
             c2 == [c1 EXCEPT !.reconnectAttempt = @ + 1, !.isReconnectFlow = TRUE]
             delay == BackoffDelay(c2.reconnectAttempt)
             c3 == SetStatus(c2, "reconnecting")
         IN [c3 EXCEPT !.reconnectTimer = delay, !.timerDue = TRUE]

ScheduleReconnect(c) ==
    IF ~c.shouldReconnect \/ ~c.reconnectEnabled \/ ~c.connectInput THEN c
    ELSE LET c1 == ClearReconnectTimer(c)
             c2 == [c1 EXCEPT !.reconnectAttempt = @ + 1, !.isReconnectFlow = TRUE]
             delay == BackoffDelay(c2.reconnectAttempt)
             c3 == SetStatus(c2, "reconnecting")
         IN [c3 EXCEPT !.reconnectTimer = delay, !.timerDue = TRUE]

\* settleReject of the closure of transport s
SettleReject(c, s) ==
    IF ~c.socks[s].hsDone THEN RejectOpen(c, s) ELSE c

\* mutant: the entry is not deleted from the pending map
HandleResponsePacket_NoDelete(c, id, ok, payload) ==
    IF id \notin c.pendingRequests THEN c
    ELSE LET c1 == [c EXCEPT !.mq = @ \o Waiters(c, {id}, 1)]
         IN IF ok
            THEN [c1 EXCEPT !.reqs[id] = SettleReq(@, "resolved", payload, "")]
            ELSE [c1 EXCEPT !.reqs[id] = SettleReq(@, "rejected", 0, "Gateway request failed")]

HandleResponsePacket(c, id, ok, payload) ==
    IF id \notin c.pendingRequests THEN c
    ELSE LET c1 == [c EXCEPT !.pendingRequests = @ \ {id},
                             !.mq = @ \o Waiters(c, {id}, 1)]
         IN IF ok
            THEN [c1 EXCEPT !.reqs[id] = SettleReq(@, "resolved", payload, "")]
            ELSE [c1 EXCEPT !.reqs[id] = SettleReq(@, "rejected", 0, "Gateway request failed")]

\* The calls of one pass over this.eventListeners.get(key) for frame n
Calls(c, key, event, n) ==
    [j \in 1..Len(c.eventListeners[key]) |->
        [frame |-> n, event |-> event, key |-> key, listener |-> c.eventListeners[key][j]]]

\* mutant: the wildcard listeners are called before the named ones
EmitEvent_WildcardFirst(c, event, payload) ==
    LET n == c.frames + 1
    IN [c EXCEPT !.frames = n,
                 !.deliveries = @ \o Calls(c, "*", event, n) \o Calls(c, event, event, n)]

EmitEvent(c, event, payload) ==
    LET n == c.frames + 1
    IN [c EXCEPT !.frames = n,
                 !.deliveries = @ \o Calls(c, event, event, n) \o Calls(c, "*", event, n)]

\* mutant: only the presence of a socket is checked, not its readyState
Request_NoReadyCheck(c, method, params, sendThrows) ==
    LET id == Len(c.reqs) + 1
        r == [method |-> method, params |-> params, sock |-> 0, state |-> "pending",
              val |-> 0, err |-> "", settles |-> 0, sockAtCall |-> c.socket,
              readyAtCall |-> IF c.socket = 0 THEN 3 ELSE c.socks[c.socket].ready]
    IN IF c.socket = 0
       THEN [c EXCEPT !.reqs = Append(@, SettleReq(r, "rejected", 0, "Socket is not connected"))]
       ELSE IF sendThrows
       THEN [c EXCEPT !.reqs = Append(@, SettleReq(r, "rejected", 0, "send failed"))]
       ELSE [c EXCEPT !.reqs = Append(@, [r EXCEPT !.sock = c.socket]),
                      !.pendingRequests = @ \cup {id}]

\* request(method, params): the new promise is reqs[Len(reqs) + 1].
Request(c, method, params, sendThrows) ==
    LET id == Len(c.reqs) + 1
        open == c.socket # 0 /\ c.socks[c.socket].ready = 1
        r == [method |-> method, params |-> params, sock |-> 0, state |-> "pending",
              val |-> 0, err |-> "", settles |-> 0, sockAtCall |-> c.socket,
              readyAtCall |-> IF c.socket = 0 THEN 3 ELSE c.socks[c.socket].ready]
    IN IF ~open
       THEN [c EXCEPT !.reqs = Append(@, SettleReq(r, "rejected", 0, "Socket is not connected"))]
       ELSE IF sendThrows
       THEN [c EXCEPT !.reqs = Append(@, SettleReq(r, "rejected", 0, "send failed"))]
       ELSE [c EXCEPT !.reqs = Append(@, [r EXCEPT !.sock = c.socket]),
                      !.pendingRequests = @ \cup {id}]

OpenAndHandshake(c, isReconnect) ==
    [c EXCEPT !.socks = Append(@, [ready |-> 0, attached |-> TRUE, hsDone |-> FALSE,
                                   isReconnect |-> isReconnect, open |-> "pending",
                                   openVal |-> 0, conn |-> "pending", connVal |-> 0,
                                   lost |-> FALSE, byTimer |-> FALSE]),
              !.socket = Len(c.socks) + 1,
              !.retryDue = FALSE]

\* connect(input) up to its `await`
Connect(c) ==
    LET c1 == [c EXCEPT !.connectInput = TRUE, !.shouldReconnect = TRUE]
        c2 == ClearReconnectTimer(c1)
        c3 == DisconnectSocket(c2)
        c4 == RejectAllPending(c3, "connect restarted")
        c5 == SetStatus(c4, IF c4.isReconnectFlow THEN "reconnecting" ELSE "connecting")
    IN OpenAndHandshake(c5, c5.isReconnectFlow)

\* connect(input) after its `await`, resumed for the attempt on transport s
ConnectResume(c, s) ==
    IF c.socks[s].open = "resolved"
    THEN [c EXCEPT !.reconnectAttempt = 0, !.isReconnectFlow = FALSE,
                   !.socks[s].conn = "resolved", !.socks[s].connVal = c.socks[s].openVal]
    ELSE LET c1 == SetStatus(c, "error")
             c2 == ScheduleReconnect(c1)
         IN [c2 EXCEPT !.socks[s].conn = "rejected"]

Disconnect(c) ==
    LET c1 == [c EXCEPT !.shouldReconnect = FALSE, !.isReconnectFlow = FALSE]
        c2 == ClearReconnectTimer(c1)
        c3 == DisconnectSocket(c2)
        c4 == RejectAllPending(c3, "disconnected")
    IN SetStatus(c4, "disconnected")

\* catch block of the handshake coroutine of transport s.  disconnectSocket()
\* tears down this.socket, which is the transport of a later attempt when the
\* coroutine has outlived its own.
HandshakeCatch(c, s) ==
    LET c1 == IF c.socks[s].hsDone THEN c ELSE Loss(c, s)
        c2 == IF c1.socket = 0 THEN c1 ELSE Loss(c1, c1.socket)
    IN DisconnectSocket(SettleReject(c2, s))

\* the handshake coroutine h after `await this.request("connect", ...)`
HandshakeResume(c, h) ==
    LET s == c.hs[h].att
        r == c.reqs[c.hs[h].req]
        c1 == [c EXCEPT !.hs[h].pc = "done"]
    IN IF r.state = "resolved"
       THEN LET c2 == [c1 EXCEPT !.socks[s].hsDone = TRUE, !.lossCount = 0]
                c3 == SetStatus(c2, "connected")
            IN ResolveOpen(c3, s, r.val)
       ELSE HandshakeCatch(c1, s)

\* the handshake coroutine h after `await input.buildConnectParams(payload)`
HandshakeBuilt(c, h, builtOk, sendThrows) ==
    LET s == c.hs[h].att
    IN IF ~builtOk THEN HandshakeCatch([c EXCEPT !.hs[h].pc = "done"], s)
       ELSE LET id == Len(c.reqs) + 1
                c1 == Request(c, "connect", c.hs[h].chal, sendThrows)
                c2 == [c1 EXCEPT !.hs[h].pc = "await", !.hs[h].req = id]
            IN IF c2.reqs[id].state = "pending" THEN c2
               ELSE [c2 EXCEPT !.mq = Append(@, [k |-> "hs", i |-> h])]

\* ChatScreen after initialize() has subscribed and loaded an empty history
\* no chat.send has been issued
NoRace == [status |-> "", run |-> 0, acked |-> FALSE, ended |-> FALSE, summary |-> ""]

ChatInit ==
    /\ sendRace = NoRace
    /\ activeRunId = 0
    /\ streamText = <<>>
    /\ messages = <<>>
    /\ isStreaming = FALSE
    /\ errorMessage = ""
    /\ isSending = FALSE
    /\ sendCall = "none"
    /\ abortCall = "none"
    /\ runs = 0
    /\ chatEvents = 0
    /\ tracked = 0
    /\ fragments = <<>>
    /\ runBuffer = <<>>

\* values of a JSON field that is not a usable string
Absent == 0          \* the field is missing (undefined)
NotString == 0 - 1   \* the field holds a value that is not a string

NoRecord == [kind |-> "none", seed32 |-> Absent, privateKey |-> Absent,
             publicKey |-> Absent, deviceId |-> Absent, deviceToken |-> Absent]

\* nothing stored, no call made
IdentityIdle ==
    /\ store = NoRecord
    /\ held = {}
    /\ lastLoad = [source |-> "none", identity |-> NoRecord,
                   before |-> NoRecord, after |-> NoRecord]
    /\ idCalls = 0
    /\ seed0 = 0
    /\ tokenSeen = FALSE

\* JSON values, tagged with what typeof / Array.isArray tell apart; a string
\* is the tuple of its characters, an object the tuple of its entries
\* <<key, value>> in insertion order.
JUndefined == [t |-> "undefined", v |-> <<>>]
JString(s) == [t |-> "string", v |-> s]
JNumber(n) == [t |-> "number", v |-> <<n>>]
JArray(items) == [t |-> "array", v |-> items]
JObject(entries) == [t |-> "object", v |-> entries]

NotBuilt == [state |-> "idle", params |-> JUndefined, error |-> ""]
NotLogged == [state |-> "idle", line |-> JUndefined]
NotSettled == [state |-> "pending", value |-> JUndefined]

\* nothing built, nothing logged
ParamsIdle ==
    /\ cpInput = "none"
    /\ cpBuilt = NotBuilt
    /\ logged = NotLogged
    /\ connectSent = JUndefined

\* no failed response seen
NoConnectionError == [state |-> "none", message |-> <<>>, category |-> "", code |-> JUndefined]

ErrorsIdle ==
    /\ resError = "none"
    /\ rejection = NotSettled
    /\ connectionError = NoConnectionError

NotListed == [state |-> "idle", search |-> JUndefined, items |-> <<>>,
              pins |-> JUndefined, labels |-> JUndefined]
NoLocalCall == [op |-> "none", key |-> <<>>, arg |-> JUndefined,
                pins |-> JUndefined, labels |-> JUndefined, n |-> 0]

\* no request recorded and no local call in progress
OverlapIdle ==
    /\ listRequests = <<>>
    /\ inflight = <<>>
    /\ writes = <<>>
    /\ store0 = [pins |-> JUndefined, labels |-> JUndefined]

\* a sessions service that has not been called, over an empty store
SessionsIdle ==
    /\ OverlapIdle
    /\ remoteRows = <<>>
    /\ pinsItem = JUndefined
    /\ labelsItem = JUndefined
    /\ listed = NotListed
    /\ lastLocal = NoLocalCall
    /\ gatewayCalls = <<>>

\* a chat service without subscriptions that has sent nothing
\* no screen has initialized a client
NoClosure == [state |-> "none", deviceToken |-> [t |-> "undefined", v |-> <<>>], token |-> <<>>]

AuthIdle ==
    /\ authClosure = NoClosure
    /\ authStored = [t |-> "undefined", v |-> <<>>]
    /\ authHandshakes = <<>>

ServiceIdle ==
    /\ svcSubs = <<>>
    /\ svcArrived = <<>>
    /\ svcDelivered = <<>>
    /\ svcSent = <<>>

\* GatewayClient after construction
GatewayInit ==
    /\ reconnectEnabled \in BOOLEAN
    /\ socket = 0
    /\ reconnectTimer = 0
    /\ reconnectAttempt = 0
    /\ shouldReconnect = FALSE
    /\ connectInput = FALSE
    /\ isReconnectFlow = FALSE
    /\ status = "disconnected"
    /\ pendingRequests = {}
    /\ eventListeners = [k \in ListenKeys |-> <<>>]
    /\ socks = <<>>
    /\ reqs = <<>>
    /\ hs = <<>>
    /\ mq = <<>>
    /\ timerDue = FALSE
    /\ deliveries = <<>>
    /\ frames = 0
    /\ closures = {}
    /\ subs = {}
    /\ afterDisconnect = FALSE
    /\ lossCount = 0
    /\ retryDue = FALSE

Init ==
    /\ GatewayInit
    /\ ChatInit
    /\ IdentityIdle
    /\ ParamsIdle
    /\ ErrorsIdle
    /\ SessionsIdle
    /\ ServiceIdle
    /\ AuthIdle

\* ---- calls by the application ----

CallConnect ==
    /\ Len(socks) < MaxSockets
    /\ Commit([Connect(St) EXCEPT !.afterDisconnect = FALSE])

CallDisconnect ==
    Commit([Disconnect(St) EXCEPT !.afterDisconnect = TRUE, !.retryDue = FALSE])

UserReqs == {i \in DOMAIN reqs : reqs[i].method # "connect"}

CallRequest(sendThrows) ==
    /\ Cardinality(UserReqs) < MaxUserReqs
    /\ Commit(Request(St, "sessions.list", 0, sendThrows))

\* onEvent(event, listener): Set.add keeps the first insertion
OnEvent(c, event, l) ==
    [c EXCEPT !.eventListeners[event] =
                 IF \E j \in DOMAIN @ : @[j] = l THEN @ ELSE Append(@, l)]

CallOnEvent(event, l) ==
    Commit([OnEvent(St, event, l) EXCEPT !.closures = @ \cup {<<event, l>>},
                                         !.subs = @ \cup {<<event, l>>}])

\* the closure returned by onEvent(event, listener)
Unsubscribe(c, event, l) ==
    [c EXCEPT !.eventListeners[event] = SelectSeq(@, LAMBDA x : x # l)]

CallUnsubscribe(event, l) ==
    /\ <<event, l>> \in closures
    /\ Commit([Unsubscribe(St, event, l) EXCEPT !.subs = @ \ {<<event, l>>}])

\* ---- transport callbacks (macrotasks) ----

Live(s) == s \in DOMAIN socks /\ socks[s].attached /\ socks[s].ready # 3 /\ mq = <<>>

SockOpen(s) ==
    /\ Live(s) /\ socks[s].ready = 0
    /\ LET c1 == [St EXCEPT !.socks[s].ready = 1]
           c2 == SetStatus(c1, IF socks[s].isReconnect THEN "reconnecting" ELSE "connecting")
       IN Commit(c2)

SockError(s) ==
    /\ Live(s)
    /\ LET c1 == IF socks[s].hsDone THEN St ELSE Loss(St, s)
       IN Commit(SettleReject(c1, s))

\* mutant: pending requests are kept when a reconnect is going to be scheduled
SockClose_KeepPendingOnReconnect(s) ==
    /\ Live(s)
    /\ LET c1 == Loss([St EXCEPT !.socks[s].ready = 3], s)
           c2 == [c1 EXCEPT !.socket = 0]
           c3 == IF c2.shouldReconnect /\ c2.reconnectEnabled
                 THEN c2 ELSE RejectAllPending(c2, "socket closed")
           c4 == IF ~c3.socks[s].hsDone THEN SettleReject(c3, s) ELSE c3
           c5 == IF c4.shouldReconnect /\ c4.reconnectEnabled
                 THEN ScheduleReconnect(c4)
                 ELSE SetStatus(c4, "disconnected")
       IN Commit(c5)

SockClose(s) ==
    /\ Live(s)
    /\ LET c1 == Loss([St EXCEPT !.socks[s].ready = 3], s)
           c2 == [c1 EXCEPT !.socket = 0]
           c3 == RejectAllPending(c2, "socket closed")
           c4 == IF ~c3.socks[s].hsDone THEN SettleReject(c3, s) ELSE c3
           c5 == IF c4.shouldReconnect /\ c4.reconnectEnabled
                 THEN ScheduleReconnect(c4)
                 ELSE SetStatus(c4, "disconnected")
       IN Commit(c5)

SockResponse(s, id, ok, payload) ==
    /\ Live(s) /\ socks[s].ready = 1
    /\ Commit(HandleResponsePacket(St, id, ok, payload))

SockEventUpTo(s, event, payload, maxHs) ==
    /\ Live(s) /\ socks[s].ready = 1
    /\ frames < MaxFrames
    /\ (event = "connect.challenge" /\ ~socks[s].hsDone) => Len(hs) < maxHs
    /\ LET c1 == EmitEvent(St, event, payload)
           c2 == IF event = "connect.challenge" /\ ~c1.socks[s].hsDone
                 THEN [c1 EXCEPT !.hs = Append(@, [att |-> s, chal |-> payload,
                                                    pc |-> "build", req |-> 0])]
                 ELSE c1
       IN Commit(c2)

\* socket.onmessage for an event frame, at most MaxHs handshake coroutines
SockEvent(s, event, payload) == SockEventUpTo(s, event, payload, MaxHs)

\* ---- continuations ----

\* input.buildConnectParams(payload) of coroutine h returns or throws
BuildDone(h, builtOk, sendThrows) ==
    /\ h \in DOMAIN hs /\ hs[h].pc = "build"
    /\ Commit(HandshakeBuilt(St, h, builtOk, sendThrows))

RunMicrotask ==
    /\ mq # <<>>
    /\ LET t == Head(mq)
           c1 == [St EXCEPT !.mq = Tail(@)]
       IN IF t.k = "hs"
          THEN Commit(HandshakeResume(c1, t.i))
          ELSE Commit(ConnectResume(c1, t.i))

\* the callback passed to scheduleTimeout by scheduleReconnect
TimerFire ==
    /\ timerDue /\ mq = <<>>
    /\ Len(socks) < MaxSockets
    /\ LET c1 == [St EXCEPT !.timerDue = FALSE]
       IN IF ~shouldReconnect \/ ~connectInput
          THEN Commit(c1)
          ELSE Commit([Connect(c1) EXCEPT !.socks[Len(c1.socks) + 1].byTimer = TRUE])

Next ==
    \/ CallConnect
    \/ CallDisconnect
    \/ \E st \in BOOLEAN : CallRequest(st)
    \/ \E s \in 1..MaxSockets : SockOpen(s)
    \/ \E s \in 1..MaxSockets : SockError(s)
    \/ \E s \in 1..MaxSockets : SockClose(s)
    \/ \E s \in 1..MaxSockets, id \in 0..(MaxUserReqs + MaxHs), ok \in BOOLEAN, p \in Payloads :
          SockResponse(s, id, ok, p)
    \/ \E s \in 1..MaxSockets, p \in Payloads :
          s \in DOMAIN socks /\ ~socks[s].hsDone /\ SockEvent(s, "connect.challenge", p)
    \/ \E h \in 1..MaxHs, b \in BOOLEAN, st \in BOOLEAN : BuildDone(h, b, st)
    \/ RunMicrotask
    \/ TimerFire

Spec == Init /\ [][Next]_vars

\* The event loop runs the queued microtasks and fires an armed timer.
FairSpec == Spec /\ WF_vars(RunMicrotask) /\ WF_vars(TimerFire)

\* The same steps, the application calling only between tasks (never from a
\* microtask that runs between two resumptions of the client's own awaits).
NextQ ==
    \/ mq = <<>> /\ CallConnect
    \/ mq = <<>> /\ CallDisconnect
    \/ \E st \in BOOLEAN : mq = <<>> /\ CallRequest(st)
    \/ \E s \in 1..MaxSockets : SockOpen(s)
    \/ \E s \in 1..MaxSockets : SockError(s)
    \/ \E s \in 1..MaxSockets : SockClose(s)
    \/ \E s \in 1..MaxSockets, id \in 0..(MaxUserReqs + MaxHs), ok \in BOOLEAN, p \in Payloads :
          SockResponse(s, id, ok, p)
    \/ \E s \in 1..MaxSockets, p \in Payloads :
          s \in DOMAIN socks /\ ~socks[s].hsDone /\ SockEvent(s, "connect.challenge", p)
    \/ \E h \in 1..MaxHs, b \in BOOLEAN, st \in BOOLEAN : BuildDone(h, b, st)
    \/ RunMicrotask
    \/ TimerFire

SpecQ == Init /\ [][NextQ]_vars

FairSpecQ == SpecQ /\ WF_vars(RunMicrotask) /\ WF_vars(TimerFire)

\* Event fan-out: one transport, listeners come and go between frames.
NextEv ==
    \/ Len(socks) < 1 /\ CallConnect
    \/ \E s \in 1..MaxSockets : SockOpen(s)
    \/ \E k \in {"chat", "*"}, l \in Listeners : CallOnEvent(k, l)
    \/ \E k \in {"chat", "*"}, l \in Listeners : CallUnsubscribe(k, l)
    \/ \E s \in 1..MaxSockets, e \in EventNames, p \in Payloads : SockEvent(s, e, p)

SpecEv == Init /\ [][NextEv]_vars

TypeOK ==
    /\ socket \in 0..Len(socks)
    /\ status \in {"disconnected", "connecting", "connected", "reconnecting", "error"}
    /\ pendingRequests \subseteq DOMAIN reqs

\* ======================= claims =======================

ReqIds == 1..(MaxUserReqs + MaxHs)
Settled(id) == id \in DOMAIN reqs /\ reqs[id].state # "pending"

\* The transport s fires onclose in this step: it was live and is closed now
\* with its handlers still set (a close by the client detaches them first).
CloseStep(s) ==
    /\ s \in DOMAIN socks /\ socks[s].attached /\ socks[s].ready # 3
    /\ socks'[s].attached /\ socks'[s].ready = 3

\* C1: when the transport closes unexpectedly, every request pending at that
\* moment is rejected with "socket closed" in that step and the pending set is
\* empty afterwards, with reconnect enabled or not; and when a connection
\* attempt creates its transport, no promise of an earlier request is pending.
C1_CloseRejectsAllPending ==
    [][ /\ \A s \in 1..MaxSockets : CloseStep(s) =>
              /\ pendingRequests' = {}
              /\ \A id \in pendingRequests :
                    /\ reqs'[id].state = "rejected"
                    /\ reqs'[id].err = "socket closed"
        /\ Len(socks') > Len(socks) =>
              \A id \in DOMAIN reqs' : reqs'[id].state # "pending" ]_vars

\* Two requests were pending when the transport closed.
C1_Witness ==
    Cardinality({id \in DOMAIN reqs : reqs[id].err = "socket closed"}) >= 2

\* C3: a response frame whose id is pending settles exactly that request
\* (resolved with the payload if ok, rejected otherwise), removes it from the
\* pending set and leaves every other request alone; a response whose id is
\* not pending changes no request; no promise is settled more than once.
C3_ResponseSettlesExactlyOne ==
    /\ [](\A id \in DOMAIN reqs : reqs[id].settles <= 1)
    /\ [][ \A s \in 1..MaxSockets, id \in 0..(MaxUserReqs + MaxHs),
              ok \in BOOLEAN, p \in Payloads :
              SockResponse(s, id, ok, p) =>
                 IF id \in pendingRequests
                 THEN /\ pendingRequests' = pendingRequests \ {id}
                      /\ reqs[id].state = "pending"
                      /\ reqs'[id].state = (IF ok THEN "resolved" ELSE "rejected")
                      /\ ok => reqs'[id].val = p
                      /\ \A j \in DOMAIN reqs : j # id => reqs'[j] = reqs[j]
                 ELSE reqs' = reqs /\ pendingRequests' = pendingRequests ]_vars

\* A response has resolved one request while another request is still pending.
C3_Witness ==
    \E i, j \in DOMAIN reqs :
        /\ reqs[i].state = "resolved" /\ reqs[i].settles = 1
        /\ reqs[j].state = "pending"

\* request() was called with no transport, or with a transport not open
NotOpenAtCall(r) == r.sockAtCall = 0 \/ r.readyAtCall # 1

\* C9: a request() made while there is no transport, or while the transport is
\* not open, returns a promise rejected with "Socket is not connected", hands
\* no frame to a transport and leaves the pending set as it was.
C9_RequestWhileNotOpenRejects ==
    /\ [](\A id \in DOMAIN reqs : NotOpenAtCall(reqs[id]) =>
              /\ reqs[id].state = "rejected"
              /\ reqs[id].err = "Socket is not connected"
              /\ reqs[id].sock = 0
              /\ id \notin pendingRequests)
    /\ [][ (Len(reqs') = Len(reqs) + 1 /\ NotOpenAtCall(reqs'[Len(reqs')]))
           => pendingRequests' = pendingRequests ]_vars

\* request() was called while the transport existed but had not opened yet.
C9_Witness ==
    \E id \in DOMAIN reqs :
        /\ reqs[id].sockAtCall # 0 /\ reqs[id].readyAtCall = 0
        /\ reqs[id].state = "rejected"

\* The transport a request was handed to is no longer the client's transport.
TransportGone(id) ==
    id \in DOMAIN reqs /\ reqs[id].sock # 0 /\ reqs[id].sock # socket

\* C2: every request whose frame was handed to a transport is settled by its
\* response or, once that transport has gone away (close event, disconnect(),
\* a restarting connect(), teardown after a failed handshake), by a local
\* rejection: no request stays pending.  (Len(socks) < MaxSockets leaves out
\* the runs in which only the bound of the model keeps the retry from starting.)
C2_EveryRequestSettles ==
    \A id \in ReqIds :
        (TransportGone(id) /\ reqs[id].state = "pending" /\ Len(socks) < MaxSockets)
            ~> Settled(id)

\* C4: in a run of failed attempts without a successful handshake in between,
\* the delay armed before the n-th retry is min(initial * factor^(n-1), max),
\* n being the number of attempts lost since the last successful handshake.
C4_DelayOfNthRetry ==
    (timerDue /\ mq = <<>> /\ lossCount >= 1) => reconnectTimer = BackoffDelay(lossCount)

\* C5: after disconnect() the status is `disconnected` and stays so until the
\* application's next connect().
C5_DisconnectedUntilConnect ==
    afterDisconnect => status = "disconnected"

\* C6: after disconnect() no retry timer is armed, and no transport is created
\* until the application calls connect() again.
C6_NoRetryAfterDisconnect ==
    /\ [](afterDisconnect => (~timerDue /\ reconnectTimer = 0 /\ socket = 0))
    /\ [][ (afterDisconnect /\ afterDisconnect') => Len(socks') = Len(socks) ]_vars

\* disconnect() was called while the handshake was in flight, and the rejected
\* connect() has since run its catch block (which calls scheduleReconnect).
C6_Witness ==
    /\ afterDisconnect
    /\ status = "error"
    /\ mq = <<>>

\* The handshake that made the client connected, as the claim describes it:
\* a challenge received on the current transport, a connect request built from
\* that challenge's payload and sent on the current transport, resolved by an
\* ok response.
HandshakeOn(h, s, c_hs, c_reqs) ==
    /\ c_hs[h].att = s
    /\ c_hs[h].req # 0
    /\ c_reqs[c_hs[h].req].method = "connect"
    /\ c_reqs[c_hs[h].req].params = c_hs[h].chal
    /\ c_reqs[c_hs[h].req].sock = s
    /\ c_reqs[c_hs[h].req].state = "resolved"

\* C7: the status becomes `connected`, and connect() resolves, only after a
\* connect.challenge was received on the current transport, the builder ran on
\* its payload, the connect request with the built parameters was sent and an
\* ok response to it arrived; connect() resolves with that response's payload.
C7_ConnectedOnlyAfterHandshake ==
    [][ /\ (status # "connected" /\ status' = "connected") =>
              \E h \in DOMAIN hs' : HandshakeOn(h, socket', hs', reqs')
        /\ \A s \in DOMAIN socks :
              (socks[s].conn = "pending" /\ socks'[s].conn = "resolved") =>
                  \E h \in DOMAIN hs' :
                      /\ HandshakeOn(h, s, hs', reqs')
                      /\ socks'[s].connVal = reqs'[hs'[h].req].val ]_vars

\* The retry is armed and only the bound on transports keeps it from starting.
RetryHeldByBound == timerDue /\ Len(socks) = MaxSockets

\* C8: with reconnect enabled and no disconnect() by the application, every
\* unexpected close and every failed attempt (onerror before the handshake is
\* done, onclose, a handshake that throws, a transport torn down before its
\* handshake completed) rejects the connect() in flight for that attempt, and
\* a new attempt creates a new transport afterwards.
C8_LossIsRetried ==
    /\ [](\A s \in DOMAIN socks :
              (reconnectEnabled /\ ~afterDisconnect /\ socks[s].lost /\ mq = <<>>) =>
                  \/ socks[s].conn = "rejected"
                  \/ socks[s].conn = "resolved" /\ socks[s].hsDone)
    /\ retryDue ~> (~retryDue \/ RetryHeldByBound)

\* The subscriptions an event frame named e is for.
SubsFor(e) == {x \in subs : x[1] = e \/ x[1] = "*"}

\* C10: an event frame is delivered to the listeners subscribed to its name
\* and then to the `*` listeners, each subscription once; the deliveries of a
\* frame come after all deliveries of the earlier frames; a subscription whose
\* unsubscribe closure was called gets nothing, the others still do.
C10_DispatchOrder ==
    [][ frames' = frames + 1 =>
          LET old == Len(deliveries)
              new == SubSeq(deliveries', old + 1, Len(deliveries'))
          IN /\ Len(deliveries') >= old
             /\ SubSeq(deliveries', 1, old) = deliveries
             /\ \A i \in DOMAIN deliveries : deliveries[i].frame <= frames
             /\ \A j \in DOMAIN new : new[j].frame = frames + 1
             /\ \A i, j \in DOMAIN new : (i < j /\ new[j].key # "*") => new[i].key # "*"
             /\ \E e \in EventNames :
                   /\ \A j \in DOMAIN new : new[j].event = e
                   /\ {<<new[j].key, new[j].listener>> : j \in DOMAIN new} = SubsFor(e)
                   /\ Len(new) = Cardinality(SubsFor(e)) ]_vars

\* Listener 1 got the first chat frame, was unsubscribed, and the second chat
\* frame went to listener 2 and then to a `*` listener, not to listener 1.
C10_Witness ==
    /\ <<"chat", 1>> \in closures \ subs
    /\ \E i, j, k \in DOMAIN deliveries :
          /\ deliveries[i].frame = 1 /\ deliveries[i].event = "chat"
          /\ deliveries[i].key = "chat" /\ deliveries[i].listener = 1
          /\ deliveries[j].frame = 2 /\ deliveries[j].event = "chat"
          /\ deliveries[j].key = "chat" /\ deliveries[j].listener = 2
          /\ deliveries[k].frame = 2 /\ deliveries[k].key = "*" /\ j < k
    /\ \A i \in DOMAIN deliveries :
          deliveries[i].frame = 2 => <<deliveries[i].key, deliveries[i].listener>> # <<"chat", 1>>

\* C11: a successful handshake resets the retry counter, so when the connected
\* transport then closes unexpectedly (reconnect enabled, no disconnect()) the
\* retry armed by that close waits exactly the initial delay.  Transports that
\* reported an error before they were connected are left out.
C11_FirstRetryAfterSuccess ==
    [][ \A s \in 1..MaxSockets :
           ( /\ CloseStep(s) /\ ~socks[s].lost
             /\ status = "connected" /\ mq = <<>>
             /\ reconnectEnabled /\ shouldReconnect )
           => (timerDue' /\ reconnectTimer' = InitialDelayMs) ]_vars

\* ======================= chat screen =======================

\* Texts are sequences of characters.
Texts == {<<>>, <<"H", "e">>, <<"l", "l", "o">>, <<" ">>}

\* String.prototype.trim
RECURSIVE TrimStart(_)
TrimStart(t) == IF t # <<>> /\ Head(t) = " " THEN TrimStart(Tail(t)) ELSE t

RECURSIVE TrimEnd(_)
TrimEnd(t) ==
    IF t # <<>> /\ t[Len(t)] = " " THEN TrimEnd(SubSeq(t, 1, Len(t) - 1)) ELSE t

Trim(t) == TrimEnd(TrimStart(t))

\* payload.message of a chat event: absent, a string (or a record with a
\* string `text`), or a record whose `content` is an array of one text part.
ChatMessages ==
    {[k |-> "none", v |-> <<>>]}
        \cup {[k |-> "text", v |-> x] : x \in Texts}
        \cup {[k |-> "parts", v |-> x] : x \in Texts}

\* extractTextFromUnknown: a string is returned as it is; the chunks of an
\* array are filtered (blank ones dropped), joined and trimmed.
ExtractTextFromUnknown(m) ==
    CASE m.k = "text" -> m.v
      [] m.k = "parts" -> IF Trim(m.v) = <<>> THEN <<>> ELSE Trim(m.v)
      [] OTHER -> <<>>

ThisSession == "s1"
SessionKeys == {"s1", "s2"}
ChatStates == {"delta", "final", "aborted", "error"}
EventErrors == {"", "boom"}     \* "" = payload.errorMessage is undefined

ChatSt == [activeRunId |-> activeRunId, streamText |-> streamText,
           messages |-> messages, isStreaming |-> isStreaming,
           errorMessage |-> errorMessage, isSending |-> isSending,
           sendCall |-> sendCall, abortCall |-> abortCall, runs |-> runs,
           chatEvents |-> chatEvents, tracked |-> tracked,
           fragments |-> fragments, runBuffer |-> runBuffer]

ChatCommit(n) ==
    /\ activeRunId' = n.activeRunId
    /\ streamText' = n.streamText
    /\ messages' = n.messages
    /\ isStreaming' = n.isStreaming
    /\ errorMessage' = n.errorMessage
    /\ isSending' = n.isSending
    /\ sendCall' = n.sendCall
    /\ abortCall' = n.abortCall
    /\ runs' = n.runs
    /\ chatEvents' = n.chatEvents
    /\ tracked' = n.tracked
    /\ fragments' = n.fragments
    /\ runBuffer' = n.runBuffer
    /\ UNCHANGED sendRace
    /\ UNCHANGED <<gatewayVars, identityVars, paramVars, errorVars, sessionVars, serviceVars, authVars>>

SetStreamingText(c, next) == [c EXCEPT !.streamText = next]

AppendAssistantMessage(c, body) ==
    LET normalized == Trim(body)
    IN IF normalized = <<>> THEN c
       ELSE [c EXCEPT !.messages = Append(@, [role |-> "assistant", body |-> normalized])]

\* the onChatEvent callback of ChatScreen
OnChatEvent(c, runId, state, message, err) ==
    IF c.activeRunId # 0 /\ runId # c.activeRunId THEN c
    ELSE IF state = "delta"
    THEN LET delta == ExtractTextFromUnknown(message)
         IN IF Len(delta) > 0
            THEN [SetStreamingText(c, delta) EXCEPT !.isStreaming = TRUE]
            ELSE c
    ELSE IF state \in {"final", "aborted"}
    THEN LET finalText == IF ExtractTextFromUnknown(message) # <<>>
                          THEN ExtractTextFromUnknown(message) ELSE c.streamText
             c1 == AppendAssistantMessage(c, finalText)
             c2 == [c1 EXCEPT !.activeRunId = 0]
             c3 == SetStreamingText(c2, <<>>)
         IN [c3 EXCEPT !.isStreaming = FALSE]
    ELSE LET c1 == [c EXCEPT !.activeRunId = 0]
             c2 == SetStreamingText(c1, <<>>)
         IN [c2 EXCEPT !.isStreaming = FALSE,
                       !.errorMessage = IF err = "" THEN "Chat stream failed" ELSE err]

\* the listener ChatService.onChatEvent registers for the `chat` event, with
\* the filter {sessionKey} the screen passes
ChatServiceListener(c, runId, sessionKey, state, message, err) ==
    IF sessionKey # ThisSession THEN c
    ELSE OnChatEvent(c, runId, state, message, err)

\* sendMessage() up to `await service.send`
SendMessage ==
    /\ ~isSending /\ sendCall = "none"
    /\ Len(SelectSeq(messages, LAMBDA x : x.role = "user")) < MaxRuns
    /\ ChatCommit([ChatSt EXCEPT
                      !.errorMessage = "",
                      !.messages = Append(@, [role |-> "user", body |-> <<"h", "i">>]),
                      !.isSending = TRUE,
                      !.sendCall = "pending"])

\* sendMessage() after `await service.send`: the ack says started or error,
\* or the call threw
SendResume(outcome) ==
    /\ sendCall = "pending"
    /\ LET runId == runs + 1
           c0 == [ChatSt EXCEPT !.sendCall = "none", !.isSending = FALSE]
       IN CASE outcome = "error" ->
                 ChatCommit([c0 EXCEPT !.activeRunId = 0,
                                       !.isStreaming = FALSE, !.errorMessage = "summary"])
            [] outcome = "started" ->
                 ChatCommit([c0 EXCEPT !.runs = runId, !.activeRunId = runId,
                                       !.isStreaming = TRUE,
                                       !.tracked = runId, !.fragments = <<>>,
                                       !.runBuffer = <<>>])
            [] OTHER ->
                 ChatCommit([c0 EXCEPT !.isStreaming = FALSE,
                                       !.errorMessage = "Failed to send message"])

\* abortMessage() up to `await service.abort`; the abort button is rendered
\* only while isStreaming
AbortMessage ==
    /\ isStreaming /\ abortCall = "none"
    /\ ChatCommit([ChatSt EXCEPT !.abortCall = "pending"])

\* abortMessage() after `await service.abort`
AbortResume(ok) ==
    /\ abortCall = "pending"
    /\ LET c0 == [ChatSt EXCEPT !.abortCall = "none"]
       IN IF ok
          THEN ChatCommit(SetStreamingText([c0 EXCEPT !.activeRunId = 0,
                                                      !.isStreaming = FALSE], <<>>))
          ELSE ChatCommit([c0 EXCEPT !.errorMessage = "Failed to abort run"])

\* a valid chat event frame reaches the listener of ChatService
ChatEvent(runId, sessionKey, state, message, err) ==
    /\ chatEvents < MaxChatEvents
    /\ runId \in 1..runs
    /\ LET c1 == ChatServiceListener(ChatSt, runId, sessionKey, state, message, err)
           mine == sessionKey = ThisSession /\ runId = tracked
           c2 == [c1 EXCEPT
                     !.chatEvents = @ + 1,
                     !.tracked = IF mine /\ state # "delta" THEN 0 ELSE @,
                     !.fragments = IF mine /\ state = "delta"
                                   THEN @ \o ExtractTextFromUnknown(message) ELSE @,
                     !.runBuffer = IF mine /\ state = "delta" THEN c1.streamText ELSE @]
       IN ChatCommit(c2)

NextChat ==
    \/ SendMessage
    \/ \E o \in {"started", "error", "throw"} : SendResume(o)
    \/ AbortMessage
    \/ \E ok \in BOOLEAN : AbortResume(ok)
    \/ \E r \in 1..MaxRuns, sk \in SessionKeys, st \in ChatStates \ {"error"},
          m \in ChatMessages : ChatEvent(r, sk, st, m, "")
    \/ \E r \in 1..MaxRuns, sk \in SessionKeys, e \in EventErrors :
          ChatEvent(r, sk, "error", [k |-> "none", v |-> <<>>], e)

\* The gateway client stays as constructed (with the default reconnect policy).
InitChat == Init /\ reconnectEnabled

SpecChat == InitChat /\ [][NextChat]_vars

\* A chat event for this session and the tracked run reaches the screen while
\* the screen's reference names that run.
TrackedEvent(r, sk, st, m, e) ==
    /\ ChatEvent(r, sk, st, m, e)
    /\ sk = ThisSession /\ tracked # 0 /\ r = tracked

\* C12: the text of each delta of the tracked run is concatenated onto the
\* run's buffer, never replacing it: after a non-empty delta the buffer is the
\* concatenation of the run's fragments in arrival order, and a final event
\* with no text then appends that concatenation as one assistant message.
C12_DeltasAreConcatenated ==
    [][ \A r \in 1..MaxRuns, m \in ChatMessages :
          /\ ( /\ TrackedEvent(r, ThisSession, "delta", m, "")
               /\ activeRunId = tracked /\ ExtractTextFromUnknown(m) # <<>> )
             => streamText' = fragments'
          /\ ( /\ TrackedEvent(r, ThisSession, "final", m, "")
               /\ activeRunId = tracked /\ ExtractTextFromUnknown(m) = <<>>
               /\ Trim(fragments) # <<>> )
             => messages' = Append(messages, [role |-> "assistant",
                                              body |-> Trim(fragments)]) ]_vars

\* The text a terminal event of the tracked run is to append: the event's own
\* text or, when it has none, the buffer accumulated for the run.
ClosingText(m) ==
    IF ExtractTextFromUnknown(m) # <<>> THEN ExtractTextFromUnknown(m) ELSE runBuffer

\* The screen's buffer holds no text left over from an earlier run.
BufferOfTrackedRun == streamText = <<>> \/ streamText = runBuffer

\* C13: a final or aborted event of the tracked run ends the run, appends one
\* message with the event's text or else the accumulated buffer (nothing when
\* that text is blank) and clears the buffer; an error event ends the run,
\* shows its errorMessage, clears the buffer and appends nothing; whether or
\* not the abort request of the application has completed before the event.
\* (Stated for a buffer that holds no text left over from an earlier run.)
C13_TerminalEventClosesRun ==
    [][ \A r \in 1..MaxRuns, m \in ChatMessages, e \in EventErrors :
          /\ \A st \in {"final", "aborted"} :
                (TrackedEvent(r, ThisSession, st, m, "") /\ BufferOfTrackedRun) =>
                   /\ activeRunId' = 0 /\ ~isStreaming' /\ streamText' = <<>>
                   /\ messages' = IF Trim(ClosingText(m)) = <<>> THEN messages
                                  ELSE Append(messages, [role |-> "assistant",
                                                         body |-> Trim(ClosingText(m))])
          /\ TrackedEvent(r, ThisSession, "error", m, e) =>
                /\ activeRunId' = 0 /\ ~isStreaming' /\ streamText' = <<>>
                /\ messages' = messages
                /\ errorMessage' = (IF e = "" THEN "Chat stream failed" ELSE e) ]_vars

\* C14: a chat event whose run is not the tracked one (another run, or a run
\* already ended by a terminal event or replaced by a newer run) changes
\* neither the messages, the buffer, the error shown nor the streaming flag.
C14_OtherRunsAreIgnored ==
    [][ \A r \in 1..MaxRuns, sk \in SessionKeys, st \in ChatStates,
           m \in ChatMessages, e \in EventErrors :
          (ChatEvent(r, sk, st, m, e) /\ (sk # ThisSession \/ r # tracked))
             => UNCHANGED <<messages, streamText, errorMessage, isStreaming>> ]_vars

\* ======================= device identity =======================

Seeds == {1, 2}          \* base64url strings that decode to 32 bytes
BadSeed == 9             \* a string that does not decode to 32 bytes
Tokens == {21, 22}       \* device tokens

\* nacl.sign.keyPair.fromSeed(seed).publicKey and sha256(publicKey)
PublicKeyOf(seed) == seed + 10
DeviceIdOf(publicKey) == publicKey + 100

\* what the secure store may hold under the key when the program starts
StoredRecords ==
    [kind : {"record"}, seed32 : Seeds \cup {BadSeed, Absent, NotString},
     privateKey : {Absent, 1, BadSeed},
     publicKey : {Absent} \cup {PublicKeyOf(s) : s \in Seeds},
     deviceId : {Absent} \cup {DeviceIdOf(PublicKeyOf(s)) : s \in Seeds},
     deviceToken : Tokens \cup {Absent, NotString}]

StoreContents ==
    {NoRecord, [NoRecord EXCEPT !.kind = "garbage"], [NoRecord EXCEPT !.kind = "nonobject"]}
        \cup StoredRecords

IsString(v) == v # Absent /\ v # NotString

\* deriveIdentityFromSeed: defined when the seed decodes to 32 bytes
CanDerive(seed32) == seed32 \in Seeds

DeriveIdentityFromSeed(seed32, deviceToken) ==
    [kind |-> "record", seed32 |-> seed32, privateKey |-> Absent,
     publicKey |-> PublicKeyOf(seed32),
     deviceId |-> DeviceIdOf(PublicKeyOf(seed32)),
     deviceToken |-> deviceToken]

\* mutant: the legacy branch forgets the deviceToken
ParseLegacyIdentity_DropsToken(raw) ==
    IF raw.kind # "record" THEN [ok |-> FALSE, seed32 |-> Absent, deviceToken |-> Absent]
    ELSE IF IsString(raw.seed32)
    THEN [ok |-> TRUE, seed32 |-> raw.seed32,
          deviceToken |-> IF IsString(raw.deviceToken) THEN raw.deviceToken ELSE Absent]
    ELSE IF IsString(raw.privateKey)
    THEN [ok |-> TRUE, seed32 |-> raw.privateKey, deviceToken |-> Absent]
    ELSE [ok |-> FALSE, seed32 |-> Absent, deviceToken |-> Absent]

\* parseLegacyIdentity: ok = FALSE stands for null
ParseLegacyIdentity(raw) ==
    IF raw.kind # "record" THEN [ok |-> FALSE, seed32 |-> Absent, deviceToken |-> Absent]
    ELSE IF IsString(raw.seed32)
    THEN [ok |-> TRUE, seed32 |-> raw.seed32,
          deviceToken |-> IF IsString(raw.deviceToken) THEN raw.deviceToken ELSE Absent]
    ELSE IF IsString(raw.privateKey)
    THEN [ok |-> TRUE, seed32 |-> raw.privateKey,
          deviceToken |-> IF IsString(raw.deviceToken) THEN raw.deviceToken ELSE Absent]
    ELSE [ok |-> FALSE, seed32 |-> Absent, deviceToken |-> Absent]

\* mutant: a record that parses is returned without comparing it to its seed
LoadOrCreateDeviceIdentity_TrustsRecord(raw, rnd) ==
    IF raw.kind = "none"
    THEN [identity |-> DeriveIdentityFromSeed(rnd, Absent), source |-> "created",
          stored |-> DeriveIdentityFromSeed(rnd, Absent)]
    ELSE LET parsed == ParseLegacyIdentity(raw)
         IN IF raw.kind # "record" \/ ~parsed.ok \/ ~CanDerive(parsed.seed32)
            THEN [identity |-> DeriveIdentityFromSeed(rnd, Absent), source |-> "recovered",
                  stored |-> DeriveIdentityFromSeed(rnd, Absent)]
            ELSE [identity |-> [raw EXCEPT !.seed32 = parsed.seed32,
                                           !.deviceToken = parsed.deviceToken],
                  source |-> "existing", stored |-> raw]

\* loadOrCreateDeviceIdentity(store, randomBytes): raw is the stored item, rnd
\* the seed made of randomBytes(32); `stored` is the item afterwards.
LoadOrCreateDeviceIdentity(raw, rnd) ==
    IF raw.kind = "none"
    THEN [identity |-> DeriveIdentityFromSeed(rnd, Absent), source |-> "created",
          stored |-> DeriveIdentityFromSeed(rnd, Absent)]
    ELSE LET parsed == ParseLegacyIdentity(raw)
         IN IF raw.kind # "record" \/ ~parsed.ok \/ ~CanDerive(parsed.seed32)
            THEN [identity |-> DeriveIdentityFromSeed(rnd, Absent), source |-> "recovered",
                  stored |-> DeriveIdentityFromSeed(rnd, Absent)]
            ELSE LET identity == DeriveIdentityFromSeed(parsed.seed32, parsed.deviceToken)
                     isMismatch == \/ raw.deviceId # identity.deviceId
                                   \/ raw.publicKey # identity.publicKey
                                   \/ raw.seed32 # identity.seed32
                 IN IF isMismatch \/ ~IsString(raw.seed32)
                    THEN [identity |-> identity, source |-> "recovered", stored |-> identity]
                    ELSE [identity |-> identity, source |-> "existing", stored |-> raw]

\* persistDeviceToken(store, identity, deviceToken): the item afterwards
PersistDeviceToken(identity, deviceToken) == [identity EXCEPT !.deviceToken = deviceToken]

\* The seed loadOrCreateDeviceIdentity can use in a stored item (0 = none).
UsableSeed(raw) ==
    IF raw.kind # "record" THEN 0
    ELSE IF IsString(raw.seed32) THEN (IF CanDerive(raw.seed32) THEN raw.seed32 ELSE 0)
    ELSE IF IsString(raw.privateKey) /\ CanDerive(raw.privateKey) THEN raw.privateKey
    ELSE 0

HasToken(raw) == raw.kind = "record" /\ IsString(raw.deviceToken)

\* The program starts with whatever an earlier run or version left in the store.
InitIdentity ==
    /\ GatewayInit /\ reconnectEnabled
    /\ ChatInit /\ ParamsIdle /\ ErrorsIdle /\ SessionsIdle /\ ServiceIdle /\ AuthIdle
    /\ store \in StoreContents
    /\ held = {}
    /\ lastLoad = [source |-> "none", identity |-> NoRecord,
                   before |-> NoRecord, after |-> NoRecord]
    /\ idCalls = 0
    /\ seed0 = UsableSeed(store)
    /\ tokenSeen = (UsableSeed(store) # 0 /\ HasToken(store))

\* what the observation of the store becomes once the store holds item s
Observe(s) ==
    /\ seed0' = IF seed0 = 0 THEN UsableSeed(s) ELSE seed0
    /\ tokenSeen' = (tokenSeen \/ ((seed0 # 0 \/ UsableSeed(s) # 0) /\ HasToken(s)))

CallLoad(rnd) ==
    /\ idCalls < MaxIdCalls
    /\ LET r == LoadOrCreateDeviceIdentity(store, rnd)
       IN /\ store' = r.stored
          /\ held' = held \cup {r.identity}
          /\ lastLoad' = [source |-> r.source, identity |-> r.identity,
                          before |-> store, after |-> r.stored]
          /\ Observe(r.stored)
    /\ idCalls' = idCalls + 1
    /\ UNCHANGED <<gatewayVars, chatVars, paramVars, errorVars, sessionVars, serviceVars, authVars>>

CallPersist(identity, deviceToken) ==
    /\ idCalls < MaxIdCalls
    /\ identity \in held
    /\ LET next == PersistDeviceToken(identity, deviceToken)
       IN /\ store' = next
          /\ held' = held \cup {next}
          /\ Observe(next)
    /\ idCalls' = idCalls + 1
    /\ UNCHANGED lastLoad
    /\ UNCHANGED <<gatewayVars, chatVars, paramVars, errorVars, sessionVars, serviceVars, authVars>>

NextIdentity ==
    \/ \E rnd \in Seeds : CallLoad(rnd)
    \/ \E identity \in held, tok \in Tokens : CallPersist(identity, tok)

SpecIdentity == InitIdentity /\ [][NextIdentity]_vars

\* publicKey and deviceId are the ones derived from the seed
Consistent(r) ==
    /\ r.kind = "record" /\ CanDerive(r.seed32)
    /\ r.publicKey = PublicKeyOf(r.seed32)
    /\ r.deviceId = DeviceIdOf(r.publicKey)

\* C15: after loadOrCreateDeviceIdentity returns, the identity returned and
\* the stored record have publicKey = derive(seed) and deviceId = hash(publicKey);
\* the source is `existing` exactly when the stored record already carried
\* those values, `created` exactly when nothing was stored, `recovered` otherwise.
C15_LoadedIdentityIsDerived ==
    lastLoad.source # "none" =>
        /\ Consistent(lastLoad.identity)
        /\ Consistent(lastLoad.after)
        /\ lastLoad.after.seed32 = lastLoad.identity.seed32
        /\ (lastLoad.source = "existing") =
              ( /\ Consistent(lastLoad.before)
                /\ lastLoad.before.seed32 = lastLoad.identity.seed32 )
        /\ (lastLoad.source = "created") = (lastLoad.before.kind = "none")
        /\ lastLoad.source \in {"existing", "created", "recovered"}

\* A record whose stored publicKey disagreed with its usable seed was repaired.
C15_Witness ==
    /\ lastLoad.source = "recovered"
    /\ UsableSeed(lastLoad.before) # 0
    /\ lastLoad.before.publicKey # Absent
    /\ lastLoad.before.publicKey # PublicKeyOf(UsableSeed(lastLoad.before))
    /\ lastLoad.identity.seed32 = UsableSeed(lastLoad.before)

Key ==
    [ minProtocol |-> <<"m", "i", "n", "P", "r", "o", "t", "o", "c", "o", "l">>,
      maxProtocol |-> <<"m", "a", "x", "P", "r", "o", "t", "o", "c", "o", "l">>,
      role |-> <<"r", "o", "l", "e">>,
      scopes |-> <<"s", "c", "o", "p", "e", "s">>,
      caps |-> <<"c", "a", "p", "s">>,
      commands |-> <<"c", "o", "m", "m", "a", "n", "d", "s">>,
      permissions |-> <<"p", "e", "r", "m", "i", "s", "s", "i", "o", "n", "s">>,
      locale |-> <<"l", "o", "c", "a", "l", "e">>,
      userAgent |-> <<"u", "s", "e", "r", "A", "g", "e", "n", "t">>,
      client |-> <<"c", "l", "i", "e", "n", "t">>,
      id |-> <<"i", "d">>,
      version |-> <<"v", "e", "r", "s", "i", "o", "n">>,
      platform |-> <<"p", "l", "a", "t", "f", "o", "r", "m">>,
      mode |-> <<"m", "o", "d", "e">>,
      auth |-> <<"a", "u", "t", "h">>,
      token |-> <<"t", "o", "k", "e", "n">>,
      password |-> <<"p", "a", "s", "s", "w", "o", "r", "d">>,
      device |-> <<"d", "e", "v", "i", "c", "e">>,
      publicKey |-> <<"p", "u", "b", "l", "i", "c", "K", "e", "y">>,
      nonce |-> <<"n", "o", "n", "c", "e">>,
      signedAt |-> <<"s", "i", "g", "n", "e", "d", "A", "t">>,
      signature |-> <<"s", "i", "g", "n", "a", "t", "u", "r", "e">>,
      ts |-> <<"t", "s">>,
      code |-> <<"c", "o", "d", "e">>,
      message |-> <<"m", "e", "s", "s", "a", "g", "e">>,
      runId |-> <<"r", "u", "n", "I", "d">>,
      sessionKey |-> <<"s", "e", "s", "s", "i", "o", "n", "K", "e", "y">>,
      seq |-> <<"s", "e", "q">>,
      state |-> <<"s", "t", "a", "t", "e">> ]

\* String.prototype.toLowerCase on one character
LowerChar(ch) ==
    CASE ch = "A" -> "a"
      [] ch = "B" -> "b"
      [] ch = "C" -> "c"
      [] ch = "D" -> "d"
      [] ch = "E" -> "e"
      [] ch = "F" -> "f"
      [] ch = "G" -> "g"
      [] ch = "H" -> "h"
      [] ch = "I" -> "i"
      [] ch = "J" -> "j"
      [] ch = "K" -> "k"
      [] ch = "L" -> "l"
      [] ch = "M" -> "m"
      [] ch = "N" -> "n"
      [] ch = "O" -> "o"
      [] ch = "P" -> "p"
      [] ch = "Q" -> "q"
      [] ch = "R" -> "r"
      [] ch = "S" -> "s"
      [] ch = "T" -> "t"
      [] ch = "U" -> "u"
      [] ch = "V" -> "v"
      [] ch = "W" -> "w"
      [] ch = "X" -> "x"
      [] ch = "Y" -> "y"
      [] ch = "Z" -> "z"
      [] OTHER -> ch

ToLowerCase(s) == [i \in DOMAIN s |-> LowerChar(s[i])]

\* String.prototype.includes
Includes(s, sub) ==
    \E i \in 0..(Len(s) - Len(sub)) : SubSeq(s, i + 1, i + Len(sub)) = sub

\* obj[key]
Get(obj, key) ==
    IF obj.t = "object" /\ \E i \in DOMAIN obj.v : obj.v[i][1] = key
    THEN obj.v[CHOOSE i \in DOMAIN obj.v : obj.v[i][1] = key][2]
    ELSE JUndefined

\* isRecord: typeof value === "object" && value !== null
IsRecord(value) == value.t \in {"object", "array"}

\* Array.prototype.join
RECURSIVE Join(_, _)
Join(parts, sep) ==
    IF parts = <<>> THEN <<>>
    ELSE IF Len(parts) = 1 THEN parts[1]
    ELSE parts[1] \o <<sep>> \o Join(Tail(parts), sep)

\* String(number) and the text of a derived key or id
NumberText(n) == <<ToString(n)>>

DEFAULT_PROTOCOL_VERSION == 3
DEFAULT_ROLE == <<"operator">>
DEFAULT_SCOPES == << <<"operator.admin">>, <<"operator.approvals">>, <<"operator.pairing">> >>
DEFAULT_CLIENT_ID == <<"openclaw-control-ui">>
DEFAULT_CLIENT_MODE == <<"webchat">>
DEFAULT_CLIENT_VERSION == <<"openpocket/0.0.1">>
DEFAULT_CLIENT_PLATFORM == <<"macos">>
DEFAULT_LOCALE == <<"ja-JP">>
DEFAULT_USER_AGENT == <<"openpocket/0.0.1">>

NonceError == "connect.challenge payload must include nonce"
TokenError == "Gateway token is required (auth.token)."
SeedError == "device seed32 must be 32 bytes"

\* payloads a connect.challenge event may carry
ChallengePayloads ==
    { JUndefined,
      JObject(<< <<Key.ts, JNumber(1)>> >>),
      JObject(<< <<Key.nonce, JNumber(7)>> >>),
      JObject(<< <<Key.nonce, JString(<<>>)>> >>),
      JObject(<< <<Key.nonce, JString(<<"n", "1">>)>> >>) }

\* manually entered tokens, stored device tokens, passwords
EnteredTokens == {<<>>, <<" ">>, <<"g">>, <<" ", "g", " ">>}
DeviceTokens == {JUndefined, JString(<<>>), JString(<<"d">>), JString(<<" ", "d", " ">>)}
Passwords == {JUndefined, JString(<<" ">>), JString(<<" ", "p">>)}
SignedAtMs == 1700

\* identities as loadOrCreateDeviceIdentity / persistDeviceToken hand them out
IdentityOf(seed32, deviceToken) ==
    [seed32 |-> seed32, publicKey |-> PublicKeyOf(seed32),
     deviceId |-> DeviceIdOf(PublicKeyOf(seed32)), deviceToken |-> deviceToken]

ConnectParamsInputs ==
    [challengePayload : ChallengePayloads,
     identity : {IdentityOf(s, d) : s \in Seeds, d \in DeviceTokens},
     token : EnteredTokens,
     password : Passwords]

\* readChallengeNonce
ReadChallengeNonce(challengePayload) ==
    IF ~IsRecord(challengePayload) \/ Get(challengePayload, Key.nonce).t # "string"
    THEN [ok |-> FALSE, nonce |-> <<>>]
    ELSE [ok |-> TRUE, nonce |-> Get(challengePayload, Key.nonce).v]

\* buildDeviceAuthSignaturePayloadV2
BuildDeviceAuthSignaturePayloadV2(input) ==
    Join(<< <<"v2">>, input.deviceId, input.clientId, input.clientMode, input.role,
            Join(input.scopes, ","), NumberText(input.signedAtMs), input.token,
            input.nonce >>, "|")

\* Ed25519, idealised: a signature names the key pair that made it and the
\* bytes it was made over, and nothing else makes it.
SignDeviceAuthPayload(seed32, payload) ==
    <<"sig", ToString(PublicKeyOf(seed32))>> \o payload

VerifySignature(publicKey, payload, signature) ==
    signature = <<"sig">> \o publicKey \o payload

\* mutant: the manually entered token wins over the stored deviceToken
BuildGatewayOperatorConnectParams_PrefersEntered(input) ==
    LET read == ReadChallengeNonce(input.challengePayload)
        tokenForAuth == Trim(IF input.token # <<>> THEN input.token
                             ELSE input.identity.deviceToken.v)
        signaturePayload ==
            BuildDeviceAuthSignaturePayloadV2(
                [deviceId |-> NumberText(input.identity.deviceId),
                 clientId |-> DEFAULT_CLIENT_ID, clientMode |-> DEFAULT_CLIENT_MODE,
                 role |-> DEFAULT_ROLE, scopes |-> DEFAULT_SCOPES,
                 signedAtMs |-> SignedAtMs, token |-> tokenForAuth,
                 nonce |-> read.nonce])
        password == IF input.password.t = "string" /\ Trim(input.password.v) # <<>>
                    THEN JString(Trim(input.password.v)) ELSE JUndefined
    IN  IF ~read.ok THEN [state |-> "threw", params |-> JUndefined, error |-> NonceError]
        ELSE IF tokenForAuth = <<>>
        THEN [state |-> "threw", params |-> JUndefined, error |-> TokenError]
        ELSE IF ~CanDerive(input.identity.seed32)
        THEN [state |-> "threw", params |-> JUndefined, error |-> SeedError]
        ELSE [state |-> "built", error |-> "",
              params |-> JObject(<<
                <<Key.minProtocol, JNumber(DEFAULT_PROTOCOL_VERSION)>>,
                <<Key.maxProtocol, JNumber(DEFAULT_PROTOCOL_VERSION)>>,
                <<Key.role, JString(DEFAULT_ROLE)>>,
                <<Key.scopes, JArray([i \in DOMAIN DEFAULT_SCOPES |-> JString(DEFAULT_SCOPES[i])])>>,
                <<Key.caps, JArray(<<>>)>>,
                <<Key.commands, JArray(<<>>)>>,
                <<Key.permissions, JObject(<<>>)>>,
                <<Key.locale, JString(DEFAULT_LOCALE)>>,
                <<Key.userAgent, JString(DEFAULT_USER_AGENT)>>,
                <<Key.client, JObject(<<
                    <<Key.id, JString(DEFAULT_CLIENT_ID)>>,
                    <<Key.version, JString(DEFAULT_CLIENT_VERSION)>>,
                    <<Key.platform, JString(DEFAULT_CLIENT_PLATFORM)>>,
                    <<Key.mode, JString(DEFAULT_CLIENT_MODE)>> >>)>>,
                <<Key.auth, JObject(<<
                    <<Key.token, JString(tokenForAuth)>>,
                    <<Key.password, password>> >>)>>,
                <<Key.device, JObject(<<
                    <<Key.id, JString(NumberText(input.identity.deviceId))>>,
                    <<Key.publicKey, JString(NumberText(input.identity.publicKey))>>,
                    <<Key.nonce, JString(read.nonce)>>,
                    <<Key.signedAt, JNumber(SignedAtMs)>>,
                    <<Key.signature,
                      JString(SignDeviceAuthPayload(input.identity.seed32,
                                                    signaturePayload))>> >>)>> >>)]

\* buildGatewayOperatorConnectParams (scopes, client and locale overrides not
\* given, now() = SignedAtMs)
BuildGatewayOperatorConnectParams(input) ==
    LET read == ReadChallengeNonce(input.challengePayload)
        tokenForAuth == Trim(IF input.identity.deviceToken.t # "undefined"
                             THEN input.identity.deviceToken.v
                             ELSE input.token)
        signaturePayload ==
            BuildDeviceAuthSignaturePayloadV2(
                [deviceId |-> NumberText(input.identity.deviceId),
                 clientId |-> DEFAULT_CLIENT_ID, clientMode |-> DEFAULT_CLIENT_MODE,
                 role |-> DEFAULT_ROLE, scopes |-> DEFAULT_SCOPES,
                 signedAtMs |-> SignedAtMs, token |-> tokenForAuth,
                 nonce |-> read.nonce])
        password == IF input.password.t = "string" /\ Trim(input.password.v) # <<>>
                    THEN JString(Trim(input.password.v)) ELSE JUndefined
    IN  IF ~read.ok THEN [state |-> "threw", params |-> JUndefined, error |-> NonceError]
        ELSE IF tokenForAuth = <<>>
        THEN [state |-> "threw", params |-> JUndefined, error |-> TokenError]
        ELSE IF ~CanDerive(input.identity.seed32)
        THEN [state |-> "threw", params |-> JUndefined, error |-> SeedError]
        ELSE [state |-> "built", error |-> "",
              params |-> JObject(<<
                <<Key.minProtocol, JNumber(DEFAULT_PROTOCOL_VERSION)>>,
                <<Key.maxProtocol, JNumber(DEFAULT_PROTOCOL_VERSION)>>,
                <<Key.role, JString(DEFAULT_ROLE)>>,
                <<Key.scopes, JArray([i \in DOMAIN DEFAULT_SCOPES |-> JString(DEFAULT_SCOPES[i])])>>,
                <<Key.caps, JArray(<<>>)>>,
                <<Key.commands, JArray(<<>>)>>,
                <<Key.permissions, JObject(<<>>)>>,
                <<Key.locale, JString(DEFAULT_LOCALE)>>,
                <<Key.userAgent, JString(DEFAULT_USER_AGENT)>>,
                <<Key.client, JObject(<<
                    <<Key.id, JString(DEFAULT_CLIENT_ID)>>,
                    <<Key.version, JString(DEFAULT_CLIENT_VERSION)>>,
                    <<Key.platform, JString(DEFAULT_CLIENT_PLATFORM)>>,
                    <<Key.mode, JString(DEFAULT_CLIENT_MODE)>> >>)>>,
                <<Key.auth, JObject(<<
                    <<Key.token, JString(tokenForAuth)>>,
                    <<Key.password, password>> >>)>>,
                <<Key.device, JObject(<<
                    <<Key.id, JString(NumberText(input.identity.deviceId))>>,
                    <<Key.publicKey, JString(NumberText(input.identity.publicKey))>>,
                    <<Key.nonce, JString(read.nonce)>>,
                    <<Key.signedAt, JNumber(SignedAtMs)>>,
                    <<Key.signature,
                      JString(SignDeviceAuthPayload(input.identity.seed32,
                                                    signaturePayload))>> >>)>> >>)]

\* sanitizeSecret: `<redacted:${value.length}>`
SanitizeSecret(value) == <<"<redacted:", ToString(Len(value)), ">">>

\* the key test of GatewayClient's own sanitizeForLog
IsSecretKey(key) ==
    LET lower == ToLowerCase(key)
    IN \/ Includes(lower, Key.token)
       \/ Includes(lower, Key.password)
       \/ Includes(lower, <<"s", "e", "c", "r", "e", "t">>)

\* sanitizeForLog of GatewayClient.ts
RECURSIVE SanitizeForLog(_)
SanitizeForLog(input) ==
    IF input.t = "string" THEN input
    ELSE IF input.t = "array"
    THEN JArray([i \in DOMAIN input.v |-> SanitizeForLog(input.v[i])])
    ELSE IF ~IsRecord(input) THEN input
    ELSE JObject([i \in DOMAIN input.v |->
            LET key == input.v[i][1]
                value == input.v[i][2]
            IN IF value.t = "string" /\ IsSecretKey(key)
               THEN <<key, JString(SanitizeSecret(value.v))>>
               ELSE <<key, SanitizeForLog(value)>>])

\* JSON.stringify, as far as it loses anything: members whose value is
\* undefined are left out
RECURSIVE JsonStringify(_)
JsonStringify(value) ==
    IF value.t = "array"
    THEN JArray([i \in DOMAIN value.v |-> JsonStringify(value.v[i])])
    ELSE IF value.t = "object"
    THEN LET kept == SelectSeq(value.v, LAMBDA e : e[2].t # "undefined")
         IN JObject([i \in DOMAIN kept |-> <<kept[i][1], JsonStringify(kept[i][2])>>])
    ELSE value

ParamsCommit(built, log, sent) ==
    /\ cpBuilt' = built
    /\ logged' = log
    /\ connectSent' = sent
    /\ UNCHANGED cpInput
    /\ UNCHANGED <<gatewayVars, chatVars, identityVars, errorVars, sessionVars, serviceVars, authVars>>

\* onmessage of a connect.challenge: await input.buildConnectParams(payload)
CallBuildConnectParams ==
    /\ cpBuilt.state = "idle"
    /\ ParamsCommit(BuildGatewayOperatorConnectParams(cpInput), logged, connectSent)

\* the rest of the handshake coroutine: log the sanitized params and send
\* the connect request, or log the failure
HandshakeContinue ==
    /\ cpBuilt.state # "idle"
    /\ logged.state = "idle"
    /\ IF cpBuilt.state = "built"
       THEN ParamsCommit(cpBuilt,
                         [state |-> "params",
                          line |-> JsonStringify(SanitizeForLog(cpBuilt.params))],
                         cpBuilt.params)
       ELSE ParamsCommit(cpBuilt,
                         [state |-> "failed", line |-> JString(<<cpBuilt.error>>)],
                         connectSent)

InitParams ==
    /\ GatewayInit /\ reconnectEnabled
    /\ ChatInit /\ IdentityIdle /\ ErrorsIdle /\ SessionsIdle /\ ServiceIdle /\ AuthIdle
    /\ cpInput \in ConnectParamsInputs
    /\ cpBuilt = NotBuilt
    /\ logged = NotLogged
    /\ connectSent = JUndefined

NextParams ==
    \/ CallBuildConnectParams
    \/ HandshakeContinue

SpecParams == InitParams /\ [][NextParams]_vars

\* a string nonce that is not empty
UsableNonce(challengePayload) ==
    /\ IsRecord(challengePayload)
    /\ Get(challengePayload, Key.nonce).t = "string"
    /\ Get(challengePayload, Key.nonce).v # <<>>

\* C16: when the challenge payload carries no usable string nonce (none, not a
\* string, or the empty string), no parameters with a signature are produced
\* and no connect request is sent for that challenge.
C16_NoSignatureWithoutNonce ==
    ~UsableNonce(cpInput.challengePayload) =>
        /\ cpBuilt.state # "built"
        /\ connectSent = JUndefined

\* the token the parameters are to carry, as entered or stored
ChosenToken(input) ==
    IF input.identity.deviceToken.t = "string"
    THEN input.identity.deviceToken.v ELSE input.token

Text(value) == value.v

\* the signature of the parameters verifies under device.publicKey against
\* the v2 payload of the transmitted values
SignatureCoversTransmitted(params) ==
    LET device == Get(params, Key.device)
        client == Get(params, Key.client)
        scopes == Get(params, Key.scopes).v
    IN VerifySignature(
          Text(Get(device, Key.publicKey)),
          BuildDeviceAuthSignaturePayloadV2(
              [deviceId |-> Text(Get(device, Key.id)),
               clientId |-> Text(Get(client, Key.id)),
               clientMode |-> Text(Get(client, Key.mode)),
               role |-> Text(Get(params, Key.role)),
               scopes |-> [i \in DOMAIN scopes |-> Text(scopes[i])],
               signedAtMs |-> Get(device, Key.signedAt).v[1],
               token |-> Text(Get(Get(params, Key.auth), Key.token)),
               nonce |-> Text(Get(device, Key.nonce))]),
          Text(Get(device, Key.signature)))

\* C17 as stated: auth.token is the deviceToken when there is one and the
\* entered token otherwise, device.nonce is the challenge's nonce and the
\* signature verifies against the transmitted values.
C17_AuthTokenAndSignature ==
    cpBuilt.state = "built" =>
        /\ Get(Get(cpBuilt.params, Key.auth), Key.token) = JString(ChosenToken(cpInput))
        /\ Get(Get(cpBuilt.params, Key.device), Key.nonce)
              = Get(cpInput.challengePayload, Key.nonce)
        /\ SignatureCoversTransmitted(cpBuilt.params)

\* C17 amended: auth.token is that token with surrounding whitespace removed.
C17_AuthTokenTrimmedAndSignature ==
    cpBuilt.state = "built" =>
        /\ Get(Get(cpBuilt.params, Key.auth), Key.token)
              = JString(Trim(ChosenToken(cpInput)))
        /\ Get(Get(cpBuilt.params, Key.device), Key.nonce)
              = Get(cpInput.challengePayload, Key.nonce)
        /\ SignatureCoversTransmitted(cpBuilt.params)

\* Parameters were built from an identity with a padded deviceToken while a
\* different token had been entered.
C17_Witness ==
    /\ cpBuilt.state = "built"
    /\ cpInput.identity.deviceToken = JString(<<" ", "d", " ">>)
    /\ cpInput.token = <<"g">>
    /\ Get(Get(cpBuilt.params, Key.auth), Key.token) = JString(<<"d">>)

\* a string member whose key names a secret
IsSensitiveKey(key) ==
    LET lower == ToLowerCase(key)
    IN \/ Includes(lower, Key.token)
       \/ Includes(lower, Key.password)
       \/ Includes(lower, <<"s", "e", "c", "r", "e", "t">>)
       \/ Includes(lower, Key.signature)

\* every sensitive string member of orig is, in out, its placeholder
RECURSIVE SecretsHidden(_, _)
SecretsHidden(orig, out) ==
    IF orig.t = "object"
    THEN \A i \in DOMAIN orig.v :
            LET key == orig.v[i][1]
                value == orig.v[i][2]
            IN IF value.t = "string" /\ IsSensitiveKey(key)
               THEN Get(out, key) = JString(SanitizeSecret(value.v))
               ELSE IsRecord(value) => SecretsHidden(value, Get(out, key))
    ELSE IF orig.t = "array"
    THEN /\ out.t = "array" /\ Len(out.v) = Len(orig.v)
         /\ \A i \in DOMAIN orig.v : SecretsHidden(orig.v[i], out.v[i])
    ELSE TRUE

\* C20: the handshake parameters written to the log carry, for every string
\* member at any depth whose key contains token, password, secret or
\* signature (case-insensitive), only the placeholder with the value's length.
C20_LoggedParamsHideSecrets ==
    logged.state = "params" => SecretsHidden(cpBuilt.params, logged.line)

\* ======================= failed responses =======================

ErrorTexts == {<<>>, <<"boom">>, <<"denied">>}
ErrorCodes == {<<"E_AUTH">>, <<"E_RATE">>, <<"E_GONE">>}

\* an object with the members that are given
ObjectOf(entries) == JObject(SelectSeq(entries, LAMBDA e : e[2].t # "undefined"))

\* packet.error: absent, not a string or object, a string, or {code?, message?}
PacketErrors ==
    {JUndefined, JNumber(5)}
        \cup {JString(x) : x \in ErrorTexts}
        \cup {ObjectOf(<< <<Key.code, c>>, <<Key.message, m>> >>) :
                c \in {JUndefined} \cup {JString(x) : x \in ErrorCodes},
                m \in {JUndefined} \cup {JString(x) : x \in ErrorTexts}}

ResponsePackets == [isPending : BOOLEAN, ok : BOOLEAN, error : PacketErrors]

\* new Error(message): an object with a message and no other member
NewError(message) == JObject(<< <<Key.message, JString(message)>> >>)

\* the message of handleResponsePacket:
\* packet.error?.message ?? packet.error?.code ?? "Gateway request failed"
FailedResponseMessage(error) ==
    IF error.t = "string" THEN error.v
    ELSE IF Get(error, Key.message).t # "undefined" THEN Get(error, Key.message).v
    ELSE IF Get(error, Key.code).t # "undefined" THEN Get(error, Key.code).v
    ELSE <<"G", "a", "t", "e", "w", "a", "y", " ", "r", "e", "q", "u", "e", "s", "t", " ", "f", "a", "i", "l", "e", "d">>

\* handleResponsePacket for the request the packet names
HandleResponse ==
    /\ rejection.state = "pending"
    /\ rejection' =
          IF ~resError.isPending THEN [state |-> "ignored", value |-> JUndefined]
          ELSE IF resError.ok THEN [state |-> "resolved", value |-> JUndefined]
          ELSE [state |-> "rejected",
                value |-> NewError(FailedResponseMessage(resError.error))]
    /\ UNCHANGED <<resError, connectionError>>
    /\ UNCHANGED <<gatewayVars, chatVars, identityVars, paramVars, sessionVars, serviceVars, authVars>>

InitErrors ==
    /\ GatewayInit /\ reconnectEnabled
    /\ ChatInit /\ IdentityIdle /\ ParamsIdle /\ SessionsIdle /\ ServiceIdle /\ AuthIdle
    /\ resError \in ResponsePackets
    /\ rejection = NotSettled
    /\ connectionError = NoConnectionError

NextErrors == HandleResponse

SpecErrors == InitErrors /\ [][NextErrors]_vars

\* C19: a request answered with ok = false is rejected with one message: the
\* string itself for a bare-string error, the message member for a structured
\* error; and when the structured error has a code, the rejection gives the
\* caller that code apart from the message.
C19_RejectionKeepsCode ==
    rejection.state = "rejected" =>
        LET error == resError.error
        IN /\ error.t = "string" => Get(rejection.value, Key.message) = error
           /\ (error.t = "object" /\ Get(error, Key.message).t = "string")
                 => Get(rejection.value, Key.message) = Get(error, Key.message)
           /\ (error.t = "object" /\ Get(error, Key.code).t = "string")
                 => Get(rejection.value, Key.code) = Get(error, Key.code)

\* ======================= sessions service =======================

MaxLocalCalls == 2

JNull == [t |-> "null", v |-> <<>>]
JBool(b) == [t |-> "boolean", v |-> <<b>>]
\* a number that is not finite, as JSON.parse("1e999") gives
JNonFinite == [t |-> "number", v |-> <<>>]
\* a stored item that JSON.parse rejects
Unparsable == [t |-> "unparsable", v |-> <<>>]

IsNullish(value) == value.t \in {"undefined", "null"}
IsFiniteNumber(value) == value.t = "number" /\ value.v # <<>>

\* a ?? b
Coalesce(a, b) == IF IsNullish(a) THEN b ELSE a

SessionKeyA == <<"a", "b", "c">>
SessionKeyB == <<"x", "y", "z">>
SessionKeyC == <<"k", "3">>
DateText10 == <<"1970-01-01T00:00:00.010Z">>

\* Date.parse: the epoch milliseconds of a date text, NaN (here -1) otherwise
DateParse(text) == IF text = DateText10 THEN 10 ELSE 0 - 1

GatewaySessionRow(key, label, derivedTitle, displayName, updatedAt) ==
    [key |-> key, label |-> label, derivedTitle |-> derivedTitle,
     displayName |-> displayName, updatedAt |-> updatedAt]

UpdatedAts == {JNumber(5), JNumber(10), JNumber(20)}

\* sessions.list answers: three rows with every mix of update times (numbers,
\* a date text, an unusable text, none) ...
SortLists ==
    { << GatewaySessionRow(SessionKeyA, JString(<<"P", "r", "o", "j", "e", "c", "t", " ", "X">>), JUndefined, JUndefined, a),
         GatewaySessionRow(SessionKeyB, JString(<<"O", "t", "h", "e", "r">>), JUndefined, JUndefined, b),
         GatewaySessionRow(SessionKeyC, JUndefined, JUndefined, JUndefined, c) >> :
      a \in UpdatedAts \cup {JString(DateText10), JString(<<"soon">>), JNull, JNonFinite},
      b \in UpdatedAts, c \in UpdatedAts }

\* ... and two rows with every mix of label, derived title and display name
LabelLists ==
    { << GatewaySessionRow(SessionKeyA, l, d, n, JNumber(10)),
         GatewaySessionRow(SessionKeyB, JString(<<"O", "t", "h", "e", "r">>), JUndefined, JUndefined, JNumber(20)) >> :
      l \in {JUndefined, JNull, JString(<<>>), JString(<<" ">>), JString(<<" ", "P", "r", "o", "j", "e", "c", "t", " ", "X">>)},
      d \in {JUndefined, JString(<<"D", "t">>)},
      n \in {JUndefined, JString(<<"D", "n">>)} }

RemoteLists == SortLists \cup LabelLists

\* what the store may hold for the pins and for the local labels at the start
StoredPins ==
    { JUndefined, Unparsable, JObject(<<>>),
      JArray(<<JString(SessionKeyA), JNumber(1), JString(SessionKeyC), JString(SessionKeyA)>>) }

LocalLabelTexts == {<<" ">>, <<" ", "p", "r", "o", " ", "L", " ">>}

StoredLabels ==
    { JUndefined, Unparsable,
      JObject(<< <<SessionKeyA, JString(<<" ">>)>>, <<SessionKeyB, JNumber(1)>> >>),
      JObject(<< <<SessionKeyA, JString(<<"p", "r", "o", " ", "L">>)>> >>) }

SearchTerms == {JUndefined, JString(<<" ">>), JString(<<" ", "P", "R", "O", " ">>), JString(<<"x", "y", "z">>)}

\* toEpochMillis
ToEpochMillis(value) ==
    IF IsFiniteNumber(value) THEN value.v[1]
    ELSE IF value.t = "string" /\ DateParse(value.v) # 0 - 1 THEN DateParse(value.v)
    ELSE 0

\* normalizeText
NormalizeText(value) == ToLowerCase(Trim(value))

\* buildDisplayLabel
BuildDisplayLabel(row) ==
    LET candidate == Coalesce(row.label,
                         Coalesce(row.derivedTitle,
                             Coalesce(row.displayName, JString(row.key))))
    IN IF candidate.t = "string" /\ Len(Trim(candidate.v)) > 0
       THEN Trim(candidate.v) ELSE row.key

\* new Set(keys) and Set.add: insertion order, no duplicates
RECURSIVE Distinct(_)
Distinct(s) ==
    IF s = <<>> THEN <<>>
    ELSE LET init == Distinct(SubSeq(s, 1, Len(s) - 1))
             last == s[Len(s)]
         IN IF \E i \in DOMAIN init : init[i] = last THEN init ELSE Append(init, last)

Has(set, key) == \E i \in DOMAIN set : set[i] = key

\* getPinnedKeys
GetPinnedKeys(item) ==
    IF item.t # "array" THEN <<>>
    ELSE LET keys == SelectSeq(item.v, LAMBDA value : value.t = "string")
         IN Distinct([i \in DOMAIN keys |-> keys[i].v])

\* what setPinned stores: JSON.stringify(Array.from(current.values()))
PinsItemOf(current) == JArray([i \in DOMAIN current |-> JString(current[i])])

\* mutant: the flag is ignored and the key's pin is flipped
SetPinned_Flips(item, key, pinned) ==
    LET current == GetPinnedKeys(item)
    IN PinsItemOf(IF Has(current, key) THEN SelectSeq(current, LAMBDA k : k # key)
                  ELSE Append(current, key))

\* setPinned: the item stored afterwards
SetPinned(item, key, pinned) ==
    LET current == GetPinnedKeys(item)
    IN PinsItemOf(IF pinned
                  THEN (IF Has(current, key) THEN current ELSE Append(current, key))
                  ELSE SelectSeq(current, LAMBDA k : k # key))

\* togglePinned: the item stored afterwards
TogglePinned(item, key) == SetPinned(item, key, ~Has(GetPinnedKeys(item), key))

\* getLocalSessionLabels: the entries whose value is a string
GetLocalSessionLabels(item) ==
    IF item.t # "object" THEN <<>>
    ELSE SelectSeq(item.v, LAMBDA entry : entry[2].t = "string")

\* labels[key]
LabelOf(labels, key) ==
    IF \E i \in DOMAIN labels : labels[i][1] = key
    THEN labels[CHOOSE i \in DOMAIN labels : labels[i][1] = key][2]
    ELSE JUndefined

\* setLocalSessionLabel: the item stored afterwards (label JNull = null)
SetLocalSessionLabel(item, key, label) ==
    LET labels == GetLocalSessionLabels(item)
        normalizedLabel == IF label.t = "null" THEN <<>> ELSE Trim(label.v)
    IN IF Len(normalizedLabel) = 0
       THEN JObject(SelectSeq(labels, LAMBDA entry : entry[1] # key))
       ELSE IF \E i \in DOMAIN labels : labels[i][1] = key
       THEN JObject([i \in DOMAIN labels |->
                        IF labels[i][1] = key THEN <<key, JString(normalizedLabel)>>
                        ELSE labels[i]])
       ELSE JObject(Append(labels, <<key, JString(normalizedLabel)>>))

\* the comparator of listSessions: negative, zero or positive
CompareItems(a, b) ==
    IF a.pinned # b.pinned THEN (IF a.pinned THEN 0 - 1 ELSE 1)
    ELSE b.updatedAt - a.updatedAt

\* Array.prototype.sort with the comparator: a stable sort
RECURSIVE InsertSorted(_, _)
InsertSorted(sorted, x) ==
    IF sorted = <<>> THEN <<x>>
    ELSE IF CompareItems(sorted[Len(sorted)], x) <= 0 THEN Append(sorted, x)
    ELSE Append(InsertSorted(SubSeq(sorted, 1, Len(sorted) - 1), x), sorted[Len(sorted)])

RECURSIVE SortItems(_)
SortItems(items) ==
    IF items = <<>> THEN <<>>
    ELSE InsertSorted(SortItems(SubSeq(items, 1, Len(items) - 1)), items[Len(items)])

\* the item listSessions makes of a row; pos stands for the `row` reference
MapRow(rows, pos, pinnedKeys, localLabels) ==
    LET row == rows[pos]
        localLabel == LabelOf(localLabels, row.key)
    IN [key |-> row.key,
        label |-> IF localLabel.t = "string" /\ Len(Trim(localLabel.v)) > 0
                  THEN localLabel.v ELSE BuildDisplayLabel(row),
        updatedAt |-> ToEpochMillis(row.updatedAt),
        pinned |-> Has(pinnedKeys, row.key),
        pos |-> pos]

\* mutant: the rows are sorted by update time alone
ListSessions_IgnoresPins(rows, pins, labels, search) ==
    LET pinnedKeys == GetPinnedKeys(pins)
        localLabels == GetLocalSessionLabels(labels)
        normalizedSearch == NormalizeText(Coalesce(search, JString(<<>>)).v)
        mapped == [i \in DOMAIN rows |-> [MapRow(rows, i, pinnedKeys, localLabels)
                                            EXCEPT !.pinned = FALSE]]
        filtered == IF Len(normalizedSearch) = 0 THEN mapped
                    ELSE SelectSeq(mapped, LAMBDA item :
                            \/ Includes(NormalizeText(item.key), normalizedSearch)
                            \/ Includes(NormalizeText(item.label), normalizedSearch))
        sorted == SortItems(filtered)
    IN [i \in DOMAIN sorted |-> [sorted[i] EXCEPT !.pinned = Has(pinnedKeys, sorted[i].key)]]

\* listSessions: the items returned for the rows the gateway answered with
ListSessions(rows, pins, labels, search) ==
    LET pinnedKeys == GetPinnedKeys(pins)
        localLabels == GetLocalSessionLabels(labels)
        normalizedSearch == NormalizeText(Coalesce(search, JString(<<>>)).v)
        mapped == [i \in DOMAIN rows |-> MapRow(rows, i, pinnedKeys, localLabels)]
        filtered == IF Len(normalizedSearch) = 0 THEN mapped
                    ELSE SelectSeq(mapped, LAMBDA item :
                            \/ Includes(NormalizeText(item.key), normalizedSearch)
                            \/ Includes(NormalizeText(item.label), normalizedSearch))
    IN SortItems(filtered)

ListKey ==
    [ includeDerivedTitles |-> <<"i", "n", "c", "l", "u", "d", "e", "D", "e", "r", "i", "v", "e", "d", "T", "i", "t", "l", "e", "s">>,
      includeLastMessage |-> <<"i", "n", "c", "l", "u", "d", "e", "L", "a", "s", "t", "M", "e", "s", "s", "a", "g", "e">>,
      limit |-> <<"l", "i", "m", "i", "t">> ]

\* { ...target, ...source }: the own properties of source replace those of
\* target of the same name, in place, and the others are appended
RECURSIVE SpreadInto(_, _)
SpreadInto(target, source) ==
    IF source = <<>> THEN target
    ELSE LET entry == Head(source)
             merged == IF \E i \in DOMAIN target : target[i][1] = entry[1]
                       THEN [i \in DOMAIN target |->
                               IF target[i][1] = entry[1] THEN entry ELSE target[i]]
                       ELSE Append(target, entry)
         IN SpreadInto(merged, Tail(source))

\* the params listSessions sends: the two flags, then ...query.gatewayParams
ListParams(gatewayParams) ==
    JObject(SpreadInto(<< <<ListKey.includeDerivedTitles, JBool(TRUE)>>,
                          <<ListKey.includeLastMessage, JBool(TRUE)>> >>,
                       IF gatewayParams.t = "object" THEN gatewayParams.v ELSE <<>>))

SessionsCommit(pins, labels, list, local, calls) ==
    /\ pinsItem' = pins
    /\ labelsItem' = labels
    /\ listed' = list
    /\ lastLocal' = local
    /\ gatewayCalls' = calls
    /\ UNCHANGED remoteRows
    /\ UNCHANGED <<inflight, writes, store0>>
    /\ UNCHANGED <<gatewayVars, chatVars, identityVars, paramVars, errorVars, serviceVars, authVars>>

\* listSessions(query) with query.search and query.gatewayParams
CallListSessionsWith(search, gatewayParams) ==
    /\ listed.state = "idle"
    /\ listRequests' = Append(listRequests, [params |-> ListParams(gatewayParams),
                                             gatewayParams |-> gatewayParams])
    /\ SessionsCommit(pinsItem, labelsItem,
                      [state |-> "done", search |-> search,
                       items |-> ListSessions(remoteRows, pinsItem, labelsItem, search),
                       pins |-> pinsItem, labels |-> labelsItem],
                      lastLocal, Append(gatewayCalls, "sessions.list"))

\* listSessions(query) without gatewayParams
CallListSessions(search) == CallListSessionsWith(search, JUndefined)

\* the record of a local mutation: the call and the items it found
LocalCall(op, key, arg) ==
    [op |-> op, key |-> key, arg |-> arg, pins |-> pinsItem, labels |-> labelsItem,
     n |-> lastLocal.n + 1]

CallSetPinned(key, pinned) ==
    /\ lastLocal.n < MaxLocalCalls
    /\ UNCHANGED listRequests
    /\ SessionsCommit(SetPinned(pinsItem, key, pinned.v[1]), labelsItem, listed,
                      LocalCall("setPinned", key, pinned),
                      gatewayCalls)

CallTogglePinned(key) ==
    /\ lastLocal.n < MaxLocalCalls
    /\ UNCHANGED listRequests
    /\ SessionsCommit(TogglePinned(pinsItem, key), labelsItem, listed,
                      LocalCall("togglePinned", key, JUndefined),
                      gatewayCalls)

CallSetLocalSessionLabel(key, label) ==
    /\ lastLocal.n < MaxLocalCalls
    /\ UNCHANGED listRequests
    /\ SessionsCommit(pinsItem, SetLocalSessionLabel(labelsItem, key, label), listed,
                      LocalCall("setLocalSessionLabel", key, label),
                      gatewayCalls)

InitSessions ==
    /\ GatewayInit /\ reconnectEnabled
    /\ ChatInit /\ IdentityIdle /\ ParamsIdle /\ ErrorsIdle /\ ServiceIdle /\ AuthIdle
    /\ remoteRows \in RemoteLists
    /\ pinsItem \in StoredPins
    /\ labelsItem \in StoredLabels
    /\ listed = NotListed
    /\ lastLocal = NoLocalCall
    /\ gatewayCalls = <<>>
    /\ OverlapIdle

NextSessions ==
    \/ \E search \in SearchTerms : CallListSessions(search)
    \/ \E key \in {SessionKeyA, SessionKeyB}, pinned \in {JBool(TRUE), JBool(FALSE)} :
          CallSetPinned(key, pinned)
    \/ \E key \in {SessionKeyA, SessionKeyB} : CallTogglePinned(key)
    \/ \E label \in {JNull} \cup {JString(x) : x \in LocalLabelTexts} :
          CallSetLocalSessionLabel(SessionKeyA, label)

SpecSessions == InitSessions /\ [][NextSessions]_vars

\* the item of the result that was made of remote row number pos, 0 if none
ListedAt(pos) ==
    IF \E i \in DOMAIN listed.items : listed.items[i].pos = pos
    THEN CHOOSE i \in DOMAIN listed.items : listed.items[i].pos = pos
    ELSE 0

\* the row matches the search term of the call
MatchesSearch(item) ==
    LET term == NormalizeText(Coalesce(listed.search, JString(<<>>)).v)
    IN \/ term = <<>>
       \/ Includes(ToLowerCase(item.key), term)
       \/ Includes(ToLowerCase(item.label), term)

\* C21: listSessions returns exactly the remote rows whose key or label
\* contains the trimmed search term, case-insensitively (all rows without a
\* term), each once; every pinned row comes before every unpinned row, within
\* a block the later updatedAt comes first, and rows equal in both keep their
\* remote order.
C21_ListIsFilteredAndOrdered ==
    listed.state = "done" =>
        LET items == listed.items
            mapped == [pos \in DOMAIN remoteRows |->
                          MapRow(remoteRows, pos, GetPinnedKeys(listed.pins),
                                 GetLocalSessionLabels(listed.labels))]
        IN /\ \A i \in DOMAIN items :
                 /\ items[i].pos \in DOMAIN remoteRows
                 /\ items[i] = mapped[items[i].pos]
           /\ \A i, j \in DOMAIN items : i # j => items[i].pos # items[j].pos
           /\ \A pos \in DOMAIN remoteRows : (ListedAt(pos) # 0) = MatchesSearch(mapped[pos])
           /\ \A i, j \in DOMAIN items : i < j =>
                 /\ items[j].pinned => items[i].pinned
                 /\ items[i].pinned = items[j].pinned =>
                       /\ items[i].updatedAt >= items[j].updatedAt
                       /\ items[i].updatedAt = items[j].updatedAt
                             => items[i].pos < items[j].pos

\* The example of the claim: A(pinned, 10), B(unpinned, 20), C(pinned, 5) is
\* listed as A, C, B.
C21_Witness ==
    /\ listed.state = "done" /\ listed.search = JUndefined
    /\ Len(remoteRows) = 3
    /\ [i \in 1..3 |-> remoteRows[i].updatedAt] = <<JNumber(10), JNumber(20), JNumber(5)>>
    /\ GetPinnedKeys(listed.pins) = <<SessionKeyA, SessionKeyC>>
    /\ [i \in DOMAIN listed.items |-> listed.items[i].key]
          = <<SessionKeyA, SessionKeyC, SessionKeyB>>

\* the first of the values that is a string with something but blanks in it
RECURSIVE FirstNonEmpty(_)
FirstNonEmpty(values) ==
    IF values = <<>> THEN <<>>
    ELSE IF Head(values).t = "string" /\ Trim(Head(values).v) # <<>>
    THEN Trim(Head(values).v)
    ELSE FirstNonEmpty(Tail(values))

\* C22: the label of each listed session is the first non-empty value among
\* the local label override, the remote label, the derived title, the display
\* name and the session key (compared without surrounding blanks).
C22_LabelPreference ==
    listed.state = "done" =>
        \A i \in DOMAIN listed.items :
            LET item == listed.items[i]
                row == remoteRows[item.pos]
            IN Trim(item.label) =
                 FirstNonEmpty(<< LabelOf(GetLocalSessionLabels(listed.labels), row.key),
                                  row.label, row.derivedTitle, row.displayName,
                                  JString(row.key) >>)

\* the keys of a pin item, as a set
PinSet(item) == {GetPinnedKeys(item)[i] : i \in DOMAIN GetPinnedKeys(item)}

\* this step is a local mutation
LocalStep == lastLocal'.n = lastLocal.n + 1

\* C23 as stated: togglePinned, setPinned and setLocalSessionLabel change only
\* the stored pins or labels, request nothing from the gateway, and the same
\* call applied once more to what they stored changes nothing.
C23_LocalCallsAreIdempotent ==
    [][ LocalStep =>
          LET call == lastLocal'
          IN /\ gatewayCalls' = gatewayCalls
             /\ call.op = "setPinned" =>
                   /\ labelsItem' = labelsItem
                   /\ SetPinned(pinsItem', call.key, call.arg.v[1]) = pinsItem'
             /\ call.op = "togglePinned" =>
                   /\ labelsItem' = labelsItem
                   /\ TogglePinned(pinsItem', call.key) = pinsItem'
             /\ call.op = "setLocalSessionLabel" =>
                   /\ pinsItem' = pinsItem
                   /\ SetLocalSessionLabel(labelsItem', call.key, call.arg) = labelsItem' ]_vars

\* C23 amended: setPinned and setLocalSessionLabel are idempotent; togglePinned
\* flips the pin of the key, so that the same call once more gives back the
\* pin set it found; none of the three touches the other item or the gateway.
C23_SettersIdempotentToggleFlips ==
    [][ LocalStep =>
          LET call == lastLocal'
          IN /\ gatewayCalls' = gatewayCalls
             /\ call.op = "setPinned" =>
                   /\ labelsItem' = labelsItem
                   /\ SetPinned(pinsItem', call.key, call.arg.v[1]) = pinsItem'
             /\ call.op = "togglePinned" =>
                   /\ labelsItem' = labelsItem
                   /\ (call.key \in PinSet(pinsItem')) = (call.key \notin PinSet(pinsItem))
                   /\ PinSet(TogglePinned(pinsItem', call.key)) = PinSet(pinsItem)
             /\ call.op = "setLocalSessionLabel" =>
                   /\ pinsItem' = pinsItem
                   /\ SetLocalSessionLabel(labelsItem', call.key, call.arg) = labelsItem' ]_vars

\* The second local call was setPinned(key, true) on a store in which an
\* earlier call had pinned the key, and it stored what it found.
C23_Witness ==
    /\ lastLocal.n = 2
    /\ lastLocal.op = "setPinned" /\ lastLocal.arg = JBool(TRUE)
    /\ lastLocal.key \in PinSet(lastLocal.pins)
    /\ lastLocal.pins = JArray(<<JString(lastLocal.key)>>)
    /\ pinsItem = lastLocal.pins

\* ======================= chat service =======================

MaxSends == 2
MaxSubs == 2
MaxArrivals == 2

\* String(n) for a natural number, digit by digit
DigitChars == <<"0", "1", "2", "3", "4", "5", "6", "7", "8", "9">>

RECURSIVE Digits(_)
Digits(n) ==
    IF n < 10 THEN <<DigitChars[n + 1]>>
    ELSE Append(Digits(n \div 10), DigitChars[(n % 10) + 1])

ServiceKey1 == <<"s", "1">>
ServiceKey2 == <<"s", "2">>
RunId1 == <<"r", "1">>
RunId2 == <<"r", "2">>

\* what now() and randomId() may return, and the keys a caller may pass
ClockReadings == {1, 15, 1000}
RandomIds == {<<>>, <<"5">>, <<"r", "i", "d">>}
GivenKeys == {JUndefined, JString(<<>>), JString(<<"fixed-key">>)}

\* mutant: the clock reading is left out of the key
CreateIdempotencyKey_NoClock(sessionKey, now, random) ==
    sessionKey \o <<":">> \o <<":">> \o random

\* createIdempotencyKey: `${sessionKey}:${this.now()}:${this.randomId()}`
CreateIdempotencyKey(sessionKey, now, random) ==
    sessionKey \o <<":">> \o Digits(now) \o <<":">> \o random

\* send: the params of the chat.send request
SendParams(input, now, random) ==
    [message |-> input.message,
     sessionKey |-> input.sessionKey,
     idempotencyKey |->
         Coalesce(input.idempotencyKey,
                  JString(CreateIdempotencyKey(input.sessionKey, now, random)))]

ServiceCommit(subscriptions, arrived, delivered, sent) ==
    /\ svcSubs' = subscriptions
    /\ svcArrived' = arrived
    /\ svcDelivered' = delivered
    /\ svcSent' = sent
    /\ UNCHANGED <<gatewayVars, chatVars, identityVars, paramVars, errorVars, sessionVars, authVars>>

\* send(input); the request is recorded with the input and the readings it used
CallSend(input, now, random) ==
    /\ Len(svcSent) < MaxSends
    /\ ServiceCommit(svcSubs, svcArrived, svcDelivered,
                     Append(svcSent, [params |-> SendParams(input, now, random),
                                      input |-> input, now |-> now, random |-> random]))

NextSend ==
    \E sessionKey \in {ServiceKey1, ServiceKey2}, key \in GivenKeys,
       now \in ClockReadings, random \in RandomIds :
        CallSend([message |-> <<"hello">>, sessionKey |-> sessionKey,
                  idempotencyKey |-> key], now, random)

SpecSend == Init /\ [][NextSend]_vars

\* C24: a send with an explicit idempotencyKey passes that key unchanged; a
\* send without one passes sessionKey:nowMs:randomSuffix, so two keyless sends
\* for one session at different clock readings carry different keys.
C24_IdempotencyKey ==
    /\ \A i \in DOMAIN svcSent :
          LET call == svcSent[i]
          IN /\ call.input.idempotencyKey.t = "string"
                   => call.params.idempotencyKey = call.input.idempotencyKey
             /\ call.input.idempotencyKey.t = "undefined"
                   => call.params.idempotencyKey =
                         JString(call.input.sessionKey \o <<":">> \o Digits(call.now)
                                    \o <<":">> \o call.random)
             /\ call.params.sessionKey = call.input.sessionKey
    /\ \A i, j \in DOMAIN svcSent :
          ( /\ svcSent[i].input.idempotencyKey.t = "undefined"
            /\ svcSent[j].input.idempotencyKey.t = "undefined"
            /\ svcSent[i].input.sessionKey = svcSent[j].input.sessionKey
            /\ svcSent[i].now # svcSent[j].now )
          => svcSent[i].params.idempotencyKey # svcSent[j].params.idempotencyKey

\* Two keyless sends for s1, at readings 1 (suffix "5") and 15 (no suffix):
\* the keys s1:1:5 and s1:15: differ.
C24_Witness ==
    /\ Len(svcSent) = 2
    /\ svcSent[1].input.sessionKey = ServiceKey1
    /\ svcSent[1].input.idempotencyKey = JUndefined
    /\ svcSent[2].input = svcSent[1].input
    /\ svcSent[1].now = 1 /\ svcSent[1].random = <<"5">>
    /\ svcSent[2].now = 15 /\ svcSent[2].random = <<>>
    /\ svcSent[1].params.idempotencyKey = JString(<<"s", "1", ":", "1", ":", "5">>)

\* ---- chat events ----

ChatEventPayload(runId, sessionKey, seq, state) ==
    ObjectOf(<< <<Key.runId, runId>>, <<Key.sessionKey, sessionKey>>,
                <<Key.seq, seq>>, <<Key.state, state>> >>)

\* payloads of events: well-formed ones for two runs and two sessions, and
\* ones with one member missing or of the wrong type
EventPayloads ==
    { ChatEventPayload(JString(r), JString(s), JNumber(1), JString(<<"delta">>)) :
        r \in {RunId1, RunId2}, s \in {ServiceKey1, ServiceKey2} }
    \cup { ChatEventPayload(JString(RunId1), JString(ServiceKey1), JNumber(2), JString(<<st>>)) :
             st \in {"final", "aborted", "error", "done"} }
    \cup { JUndefined, JString(<<"delta">>),
           ChatEventPayload(JNumber(1), JString(ServiceKey1), JNumber(1), JString(<<"delta">>)),
           ChatEventPayload(JString(RunId1), JUndefined, JNumber(1), JString(<<"delta">>)),
           ChatEventPayload(JString(RunId1), JString(ServiceKey1), JUndefined, JString(<<"delta">>)),
           ChatEventPayload(JString(RunId1), JString(ServiceKey1), JString(<<"1">>), JString(<<"delta">>)),
           ChatEventPayload(JString(RunId1), JString(ServiceKey1), JNonFinite, JString(<<"delta">>)),
           ChatEventPayload(JString(RunId1), JString(ServiceKey1), JNumber(1), JUndefined) }

ChatEventFilters ==
    [runId : {JUndefined, JString(RunId1)},
     sessionKey : {JUndefined, JString(<<>>), JString(ServiceKey1)}]

\* isChatState
IsChatState(value) ==
    value.t = "string" /\ value.v \in {<<"delta">>, <<"final">>, <<"aborted">>, <<"error">>}

\* parseChatEventPayload: TRUE when it returns the payload, FALSE for null
ParseChatEventPayload(payload) ==
    IF ~IsRecord(payload) THEN FALSE
    ELSE ~ ( \/ Get(payload, Key.runId).t # "string"
             \/ Get(payload, Key.sessionKey).t # "string"
             \/ Get(payload, Key.seq).t # "number"
             \/ ~IsFiniteNumber(Get(payload, Key.seq))
             \/ ~IsChatState(Get(payload, Key.state)) )

\* a filter value that is set: a non-empty string
Truthy(value) == value.t = "string" /\ value.v # <<>>

\* mutant: the runId filter is not applied
ChatListenerAccepts_NoRunFilter(filter, payload) ==
    /\ ParseChatEventPayload(payload)
    /\ ~(Truthy(filter.sessionKey) /\ Get(payload, Key.sessionKey) # filter.sessionKey)

\* the closure onChatEvent registers: TRUE when it calls the listener
ChatListenerAccepts(filter, payload) ==
    /\ ParseChatEventPayload(payload)
    /\ ~(Truthy(filter.sessionKey) /\ Get(payload, Key.sessionKey) # filter.sessionKey)
    /\ ~(Truthy(filter.runId) /\ Get(payload, Key.runId) # filter.runId)

\* onChatEvent(listener, filter): eventSource.onEvent("chat", closure)
CallOnChatEvent(filter) ==
    /\ Len(svcSubs) < MaxSubs
    /\ ServiceCommit(Append(svcSubs, [filter |-> filter, active |-> TRUE,
                                      from |-> Len(svcArrived), until |-> 0]),
                     svcArrived, svcDelivered, svcSent)

\* the closure onChatEvent returned
CallOff(i) ==
    /\ i \in DOMAIN svcSubs
    /\ ServiceCommit([svcSubs EXCEPT ![i].active = FALSE,
                                     ![i].until = IF svcSubs[i].active
                                                  THEN Len(svcArrived) ELSE @],
                     svcArrived, svcDelivered, svcSent)

\* the calls one emit makes, over the subscriptions in registration order
RECURSIVE EmitCalls(_, _, _, _)
EmitCalls(subscriptions, i, event, n) ==
    IF i > Len(subscriptions) THEN <<>>
    ELSE (IF /\ subscriptions[i].active
             /\ event.event = "chat"
             /\ ChatListenerAccepts(subscriptions[i].filter, event.payload)
          THEN << <<i, n>> >> ELSE <<>>)
         \o EmitCalls(subscriptions, i + 1, event, n)

\* the event source emits an event frame
SourceEmits(event) ==
    /\ Len(svcArrived) < MaxArrivals
    /\ ServiceCommit(svcSubs, Append(svcArrived, event),
                     svcDelivered \o EmitCalls(svcSubs, 1, event, Len(svcArrived) + 1),
                     svcSent)

NextChatEvents ==
    \/ \E filter \in ChatEventFilters : CallOnChatEvent(filter)
    \/ \E i \in 1..MaxSubs : CallOff(i)
    \/ \E payload \in EventPayloads : SourceEmits([payload |-> payload, event |-> "chat"])
    \/ SourceEmits([payload |-> ChatEventPayload(JString(RunId1), JString(ServiceKey1),
                                                 JNumber(1), JString(<<"delta">>)),
                    event |-> "tick"])

SpecChatEvents == Init /\ [][NextChatEvents]_vars

\* a payload as the claim wants it: string runId and sessionKey, finite
\* numeric seq, state one of delta, final, aborted, error
WellFormed(payload) ==
    /\ payload.t = "object"
    /\ Get(payload, Key.runId).t = "string"
    /\ Get(payload, Key.sessionKey).t = "string"
    /\ Get(payload, Key.seq).t = "number" /\ Get(payload, Key.seq).v # <<>>
    /\ Get(payload, Key.state) \in
          {JString(<<"delta">>), JString(<<"final">>), JString(<<"aborted">>), JString(<<"error">>)}

\* the arrival is one the subscription is to get
Due(sub, n) ==
    LET event == svcArrived[n]
    IN /\ sub.from < n
       /\ sub.active \/ n <= sub.until
       /\ event.event = "chat"
       /\ WellFormed(event.payload)
       /\ Truthy(sub.filter.sessionKey)
             => Get(event.payload, Key.sessionKey) = sub.filter.sessionKey
       /\ Truthy(sub.filter.runId) => Get(event.payload, Key.runId) = sub.filter.runId

MaxChallenges == 2   \* connect.challenge events on the one transport of SpecCh

\* One transport, on which connect.challenge arrives more than once.
NextCh ==
    \/ Len(socks) < 1 /\ CallConnect
    \/ \E s \in 1..MaxSockets : SockOpen(s)
    \/ \E l \in Listeners : CallOnEvent("connect.challenge", l)
    \/ \E s \in 1..MaxSockets, p \in Payloads :
          SockEventUpTo(s, "connect.challenge", p, MaxChallenges)
    \/ \E h \in 1..MaxChallenges, b \in BOOLEAN, st \in BOOLEAN : BuildDone(h, b, st)
    \/ \E s \in 1..MaxSockets, id \in 1..MaxChallenges, ok \in BOOLEAN, p \in Payloads :
          SockResponse(s, id, ok, p)
    \/ RunMicrotask

SpecCh == Init /\ [][NextCh]_vars

\* the attempt on transport s was superseded: a later connect() has created
\* its transport, or the application has called disconnect() since
Superseded(s) == s < Len(socks) \/ afterDisconnect

\* this step resumes the handshake coroutine or the connect() call of attempt s
StepOfAttempt(s) ==
    \/ \E h \in DOMAIN hs : hs[h].att = s /\ hs'[h].pc # hs[h].pc
    \/ socks'[s].conn # socks[s].conn

\* connect requests that were sent on transport s
ConnectRequests(s) == {i \in DOMAIN reqs : reqs[i].method = "connect" /\ reqs[i].sock = s}

\* C26: once a fresh connect() or a disconnect() has superseded a connection
\* attempt, no step of that attempt (its handshake coroutine, its connect()
\* call) changes the status, sends a frame, or closes or detaches a transport.
C26_SupersededAttemptIsInert ==
    [][ \A s \in DOMAIN socks :
          (Superseded(s) /\ StepOfAttempt(s)) =>
              /\ status' = status
              /\ pendingRequests' = pendingRequests
              /\ socket' = socket
              /\ \A k \in DOMAIN socks : socks'[k].ready = socks[k].ready
      ]_vars

\* C27: on one transport at most one connect request is sent, however many
\* connect.challenge events arrive, and every challenge event is delivered to
\* the listeners subscribed at that moment.
C27_OneConnectRequestPerTransport ==
    /\ \A s \in DOMAIN socks : Cardinality(ConnectRequests(s)) <= 1
    /\ \A n \in 1..frames, l \in Listeners :
          Cardinality({k \in DOMAIN deliveries :
                          deliveries[k].frame = n /\ deliveries[k].listener = l}) <= 1

\* C28: whenever this.socket is null, the pending-request map is empty.
C28_NoTransportNoPending ==
    socket = 0 => pendingRequests = {}

\* this.socket is an open transport whose handshake has succeeded
OpenAndShaken == socket # 0 /\ socks[socket].ready = 1 /\ socks[socket].hsDone

\* C29: whenever the status is connected, the client holds an open transport
\* on which the handshake has succeeded, and no retry timer is armed.  The
\* formula is the part about the timer: connected implies no armed timer.
C29_ConnectedHasNoRetryTimer ==
    status = "connected" => reconnectTimer = 0 /\ ~timerDue

\* the other part: connected implies an open transport with a done handshake
ConnectedIsOpenAndShaken == status = "connected" => OpenAndShaken

\* The event loop runs the queued microtasks and fires an armed timer; the
\* parameter builder returns or throws; and every transport whose handlers
\* are set is closed by the network sooner or later.
FairSpecSettle ==
    /\ SpecQ
    /\ WF_vars(RunMicrotask)
    /\ WF_vars(TimerFire)
    /\ WF_vars(\E h \in 1..MaxHs, b \in BOOLEAN, st \in BOOLEAN : BuildDone(h, b, st))
    /\ \A s \in 1..MaxSockets : WF_vars(SockClose(s))

\* the promise returned by the connect() call that created transport s
ConnectPending(s) == s \in DOMAIN socks /\ socks[s].conn = "pending"

\* C30: every promise returned by connect() is eventually settled, also when
\* disconnect() or another connect() is called while it waits for the
\* transport to open, for the challenge or for the handshake response.
C30_ConnectPromiseSettles ==
    \A s \in 1..MaxSockets : ConnectPending(s) ~> ~ConnectPending(s)

\* ======================= status of the connection =======================

\* a step that may be a call of connect() by the application (it creates a
\* transport, and not from the timer callback) or of disconnect() (the last
\* call of the application is disconnect afterwards)
MayBeExplicitCall ==
    \/ Len(socks') > Len(socks) /\ ~socks'[Len(socks')].byTimer
    \/ afterDisconnect' /\ status' = "disconnected"

\* C31: once the status is error it changes only when connect() or
\* disconnect() is called; no timer or transport event moves it out of error.
C31_ErrorIsTerminal ==
    [][ (status = "error" /\ status' # "error") => MayBeExplicitCall ]_vars

\* C32: a connect() call made by the application sets the status to
\* connecting; reconnecting is reported for an attempt only when the backoff
\* timer started it.  (isReconnect is the flag connect() read for its status.)
C32_ReconnectingOnlyFromTimer ==
    \A s \in DOMAIN socks : socks[s].isReconnect => socks[s].byTimer

\* ======================= failed connect on the login screen =======================

LowerLetters == <<"a", "b", "c", "d", "e", "f", "g", "h", "i", "j", "k", "l", "m", "n", "o", "p", "q", "r", "s", "t", "u", "v", "w", "x", "y", "z">>
UpperLetters == <<"A", "B", "C", "D", "E", "F", "G", "H", "I", "J", "K", "L", "M", "N", "O", "P", "Q", "R", "S", "T", "U", "V", "W", "X", "Y", "Z">>

UpperChar(ch) ==
    IF \E i \in DOMAIN LowerLetters : LowerLetters[i] = ch
    THEN UpperLetters[CHOOSE i \in DOMAIN LowerLetters : LowerLetters[i] = ch]
    ELSE ch

\* String.prototype.toUpperCase
ToUpperCase(s) == [i \in DOMAIN s |-> UpperChar(s[i])]

\* the words classifyError looks for
Word == [ pairing |-> <<"P", "A", "I", "R", "I", "N", "G", "_", "R", "E", "Q", "U", "I", "R", "E", "D">>,
          auth |-> <<"A", "U", "T", "H">>,
          token |-> <<"T", "O", "K", "E", "N">>,
          unauthorized |-> <<"U", "N", "A", "U", "T", "H", "O", "R", "I", "Z", "E", "D">>,
          forbidden |-> <<"F", "O", "R", "B", "I", "D", "D", "E", "N">>,
          invalid |-> <<"I", "N", "V", "A", "L", "I", "D", "_", "R", "E", "Q", "U", "E", "S", "T">>,
          validation |-> <<"V", "A", "L", "I", "D", "A", "T", "I", "O", "N">>,
          socket |-> <<"S", "O", "C", "K", "E", "T">>,
          network |-> <<"N", "E", "T", "W", "O", "R", "K">>,
          websocket |-> <<"W", "E", "B", "S", "O", "C", "K", "E", "T">> ]

\* what the gateway may put in the error of a refused connect
ConnectErrorCodes == {Word.pairing, Word.unauthorized}
ConnectErrorTexts ==
    { <<>>,
      <<"a", "p", "p", "r", "o", "v", "e", " ", "t", "h", "i", "s", " ", "d", "e", "v", "i", "c", "e", " ", "o", "n", " ", "t", "h", "e", " ", "g", "a", "t", "e", "w", "a", "y">>,
      <<"d", "e", "v", "i", "c", "e", " ", "t", "o", "k", "e", "n", " ", "r", "e", "j", "e", "c", "t", "e", "d">>,
      <<"p", "a", "i", "r", "i", "n", "g", "_", "r", "e", "q", "u", "i", "r", "e", "d", ":", " ", "a", "p", "p", "r", "o", "v", "e", " ", "t", "h", "e", " ", "d", "e", "v", "i", "c", "e">>,
      <<"s", "o", "c", "k", "e", "t", " ", "h", "a", "n", "g", " ", "u", "p">> }

ConnectErrors ==
    {JUndefined}
        \cup {JString(x) : x \in ConnectErrorTexts \cup ConnectErrorCodes}
        \cup {ObjectOf(<< <<Key.code, c>>, <<Key.message, m>> >>) :
                c \in {JUndefined} \cup {JString(x) : x \in ConnectErrorCodes},
                m \in {JUndefined} \cup {JString(x) : x \in ConnectErrorTexts}}

ConnectResponses == [isPending : BOOLEAN, ok : BOOLEAN, error : ConnectErrors]

\* normalizeErrorMessage, for an Error object or a string
NormalizeErrorMessage(value) ==
    IF value.t = "object" /\ Get(value, Key.message).t = "string" THEN Get(value, Key.message).v
    ELSE IF value.t = "string" THEN value.v
    ELSE <<"U", "n", "k", "n", "o", "w", "n", " ", "e", "r", "r", "o", "r">>

ClassifyError(error) ==
    LET message == NormalizeErrorMessage(error)
        code == IF Get(error, Key.code).t = "string" THEN Get(error, Key.code) ELSE JUndefined
        haystack == ToUpperCase((IF code.t = "string" THEN code.v ELSE <<>>) \o <<" ">> \o message)
        category ==
            IF Includes(haystack, Word.pairing) THEN "PAIRING_REQUIRED"
            ELSE IF \/ Includes(haystack, Word.auth) \/ Includes(haystack, Word.token)
                    \/ Includes(haystack, Word.unauthorized) \/ Includes(haystack, Word.forbidden)
            THEN "AUTH"
            ELSE IF Includes(haystack, Word.invalid) \/ Includes(haystack, Word.validation)
            THEN "INVALID_REQUEST"
            ELSE IF \/ Includes(haystack, Word.socket) \/ Includes(haystack, Word.network)
                    \/ Includes(haystack, Word.websocket)
            THEN "NETWORK"
            ELSE "UNKNOWN"
    IN [state |-> "set", message |-> message, category |-> category, code |-> code]

\* The rejection of the connect request travels unchanged through the catch
\* block of the handshake and the catch block of connect() (normalizeError
\* returns an Error as it is) to the catch block of LoginScreen.connect.
LoginCatch ==
    /\ rejection.state = "rejected"
    /\ connectionError.state = "none"
    /\ connectionError' = ClassifyError(rejection.value)
    /\ UNCHANGED <<resError, rejection>>
    /\ UNCHANGED <<gatewayVars, chatVars, identityVars, paramVars, sessionVars, serviceVars, authVars>>

InitLogin ==
    /\ GatewayInit /\ reconnectEnabled
    /\ ChatInit /\ IdentityIdle /\ ParamsIdle /\ SessionsIdle /\ ServiceIdle /\ AuthIdle
    /\ resError \in ConnectResponses
    /\ rejection = NotSettled
    /\ connectionError = NoConnectionError

NextLogin == HandleResponse \/ LoginCatch

SpecLogin == InitLogin /\ [][NextLogin]_vars

\* C33: a connect() failure caused by an error response whose code is
\* PAIRING_REQUIRED is shown with category PAIRING_REQUIRED, whatever the
\* text of the error's message.
C33_PairingRequiredIsShown ==
    ( /\ connectionError.state = "set"
      /\ Get(resError.error, Key.code) = JString(Word.pairing) )
    => connectionError.category = "PAIRING_REQUIRED"

\* ======================= credentials over reconnects =======================

MaxHandshakes == 4

\* the token the user entered, as the secrets store holds it
StoredEnteredTokens == {<<"g">>, <<" ", "g", " ">>}
\* a deviceToken a hello response may carry in auth.deviceToken
IssuedTokens == {JUndefined, JString(<<"d", "1">>), JString(<<"d", "2">>)}
\* the deviceToken of the identity record an earlier run left in the store
EarlierTokens == {JUndefined, JString(<<"d", "0">>)}

AuthCommit(closure, stored, handshakes) ==
    /\ authClosure' = closure
    /\ authStored' = stored
    /\ authHandshakes' = handshakes
    /\ UNCHANGED <<gatewayVars, chatVars, identityVars, paramVars, errorVars, sessionVars,
                   serviceVars>>

\* ChatScreen.initialize up to client.connect: the secrets and the identity are
\* loaded and the buildConnectParams closure captures both
Initialize(token) ==
    /\ authClosure.state = "none"
    /\ AuthCommit([state |-> "set", deviceToken |-> authStored, token |-> Trim(token)],
                  authStored, authHandshakes)

\* the parameters the closure builds for a challenge
ClosureParams ==
    BuildGatewayOperatorConnectParams(
        [challengePayload |-> JObject(<< <<Key.nonce, JString(<<"n", "1">>)>> >>),
         identity |-> IdentityOf(1, authClosure.deviceToken),
         token |-> authClosure.token,
         password |-> JUndefined])

\* One handshake of the client: the challenge arrives, the closure builds the
\* parameters, the gateway accepts them and may issue a deviceToken.  The
\* hello of the first handshake is the result of initialize's client.connect,
\* which persists an issued token; the hello of a handshake started by the
\* backoff timer is the result of a connect() call nobody awaits.
Handshake(issued) ==
    /\ authClosure.state = "set"
    /\ Len(authHandshakes) < MaxHandshakes
    /\ ClosureParams.state = "built"
    /\ AuthCommit(authClosure,
                  IF Len(authHandshakes) = 0 /\ issued.t = "string" THEN issued ELSE authStored,
                  Append(authHandshakes,
                         [stored |-> authStored,
                          auth |-> Get(Get(ClosureParams.params, Key.auth), Key.token),
                          issued |-> issued]))

InitAuth ==
    /\ GatewayInit /\ reconnectEnabled
    /\ ChatInit /\ IdentityIdle /\ ParamsIdle /\ ErrorsIdle /\ SessionsIdle /\ ServiceIdle
    /\ authClosure = NoClosure
    /\ authStored \in EarlierTokens
    /\ authHandshakes = <<>>

NextAuth ==
    \/ \E token \in StoredEnteredTokens : Initialize(token)
    \/ \E issued \in IssuedTokens : Handshake(issued)

SpecAuth == InitAuth /\ [][NextAuth]_vars

\* C34: once a handshake response has delivered a deviceToken and it has been
\* persisted, every later handshake of the client authenticates with that
\* deviceToken (the one the store holds when the handshake is performed).
C34_LaterHandshakesUseDeviceToken ==
    \A j \in DOMAIN authHandshakes :
        ( /\ j > 1
          /\ authHandshakes[1].issued.t = "string"
          /\ authHandshakes[j].stored = authHandshakes[1].issued )
        => authHandshakes[j].auth = authHandshakes[j].stored

\* a reconnect handshake performed after the first handshake's deviceToken was
\* persisted
C34_Witness ==
    /\ Len(authHandshakes) >= 2
    /\ authHandshakes[1].issued.t = "string"
    /\ authHandshakes[2].stored.t = "string"
    /\ authHandshakes[2].stored.v = authHandshakes[1].issued.v
    /\ authHandshakes[2].auth.t = "string"

\* ======================= regenerated identities =======================

\* the last load found an item it could take no seed from and made a new one
Regenerated ==
    /\ lastLoad.source # "none"
    /\ lastLoad.before.kind # "none"
    /\ UsableSeed(lastLoad.before) = 0

\* loading the item raw rewrites it and keeps its seed and deviceId
IsRepair(raw, rnd) ==
    /\ UsableSeed(raw) # 0
    /\ LoadOrCreateDeviceIdentity(raw, rnd).stored # raw
    /\ LoadOrCreateDeviceIdentity(raw, rnd).identity.seed32 = UsableSeed(raw)

\* C35: when the stored item is unparsable or its seed unusable, the load
\* persists an identity derived from a fresh seed, and the source it reports
\* is one that no repair keeping the old seed and deviceId reports.
C35_RegenerationIsReportedAsChange ==
    Regenerated =>
        /\ Consistent(lastLoad.after)
        /\ lastLoad.after.seed32 = lastLoad.identity.seed32
        /\ \A raw \in StoredRecords, rnd \in Seeds :
              IsRepair(raw, rnd)
                 => LoadOrCreateDeviceIdentity(raw, rnd).source # lastLoad.source

\* the part of C35 that holds: a regeneration persists the fresh identity
C35_RegenerationPersistsFreshSeed ==
    Regenerated =>
        /\ Consistent(lastLoad.after)
        /\ lastLoad.after.seed32 = lastLoad.identity.seed32
        /\ lastLoad.after.deviceToken = Absent

\* ======================= chat.send acknowledgements =======================

AckStatuses == {"started", "in_flight", "ok", "error", "queued"}
AckSummaries == {"", "quota"}

\* payloads of the response to chat.send: runId and summary are strings or not
AckPayloads ==
    [runIdIsString : BOOLEAN, status : AckStatuses, summaryIsString : BOOLEAN,
     summary : AckSummaries]

\* parseSendAck: ok = FALSE stands for the thrown Error
ParseSendAck(payload) ==
    IF ~payload.runIdIsString THEN [ok |-> FALSE, status |-> "", summary |-> ""]
    ELSE IF payload.status = "error"
    THEN IF ~payload.summaryIsString THEN [ok |-> FALSE, status |-> "", summary |-> ""]
         ELSE [ok |-> TRUE, status |-> "error", summary |-> payload.summary]
    ELSE IF payload.status \in {"started", "in_flight", "ok"}
    THEN [ok |-> TRUE, status |-> payload.status, summary |-> ""]
    ELSE [ok |-> FALSE, status |-> "", summary |-> ""]

\* mutant: an error acknowledgement leaves the tracked run in place
AfterSend_KeepsRun(c, runId, ack) ==
    IF ~ack.ok
    THEN [c EXCEPT !.isStreaming = FALSE, !.errorMessage = "Invalid chat.send response payload"]
    ELSE IF ack.status = "error"
    THEN [c EXCEPT !.isStreaming = FALSE, !.errorMessage = ack.summary]
    ELSE [c EXCEPT !.activeRunId = runId, !.isStreaming = TRUE]

\* sendMessage() after `await service.send`: the try block's continuation and
\* the catch block; the finally block is in RaceAck
AfterSend(c, runId, ack) ==
    IF ~ack.ok
    THEN [c EXCEPT !.isStreaming = FALSE, !.errorMessage = "Invalid chat.send response payload"]
    ELSE IF ack.status = "error"
    THEN [c EXCEPT !.activeRunId = 0, !.isStreaming = FALSE, !.errorMessage = ack.summary]
    ELSE [c EXCEPT !.activeRunId = runId, !.isStreaming = TRUE]

RaceCommit(n, race) ==
    /\ activeRunId' = n.activeRunId
    /\ streamText' = n.streamText
    /\ messages' = n.messages
    /\ isStreaming' = n.isStreaming
    /\ errorMessage' = n.errorMessage
    /\ isSending' = n.isSending
    /\ sendCall' = n.sendCall
    /\ abortCall' = n.abortCall
    /\ runs' = n.runs
    /\ chatEvents' = n.chatEvents
    /\ tracked' = n.tracked
    /\ fragments' = n.fragments
    /\ runBuffer' = n.runBuffer
    /\ sendRace' = race
    /\ UNCHANGED <<gatewayVars, identityVars, paramVars, errorVars, sessionVars, serviceVars,
                   authVars>>

\* sendMessage() up to `await service.send`; the gateway starts a run for the
\* request it receives
RaceSend ==
    /\ ~isSending /\ sendCall = "none"
    /\ runs < MaxRuns
    /\ RaceCommit([ChatSt EXCEPT
                      !.errorMessage = "",
                      !.messages = Append(@, [role |-> "user", body |-> <<"h", "i">>]),
                      !.isSending = TRUE,
                      !.sendCall = "pending",
                      !.runs = @ + 1],
                  [NoRace EXCEPT !.run = runs + 1])

\* the response to chat.send arrives and sendMessage() resumes
RaceAck(payload) ==
    /\ sendCall = "pending"
    /\ LET ack == ParseSendAck(payload)
           c0 == AfterSend(ChatSt, sendRace.run, ack)
       IN RaceCommit([c0 EXCEPT !.sendCall = "none", !.isSending = FALSE],
                     [sendRace EXCEPT !.acked = TRUE,
                                      !.status = IF ack.ok THEN ack.status ELSE "invalid",
                                      !.summary = ack.summary])

\* a chat event of the run of the last chat.send reaches the screen's listener
RaceEvent(state, message, err) ==
    /\ sendRace.run # 0 /\ ~sendRace.ended
    /\ chatEvents < MaxChatEvents
    /\ LET c1 == ChatServiceListener(ChatSt, sendRace.run, ThisSession, state, message, err)
       IN RaceCommit([c1 EXCEPT !.chatEvents = @ + 1],
                     [sendRace EXCEPT !.ended = (state # "delta")])

InitRace == InitChat

NextRace ==
    \/ RaceSend
    \/ \E payload \in AckPayloads : RaceAck(payload)
    \/ \E st \in ChatStates \ {"error"}, m \in ChatMessages : RaceEvent(st, m, "")
    \/ \E e \in EventErrors : RaceEvent("error", [k |-> "none", v |-> <<>>], e)

SpecRace == InitRace /\ [][NextRace]_vars

\* C36: when chat.send is acknowledged with status "error", then right after
\* the acknowledgement is processed no run is tracked, the streaming flag is
\* off and the acknowledgement's summary is the error shown, whether or not a
\* chat event of the run has arrived.
C36_ErrorAckIsTerminal ==
    [][ \A payload \in AckPayloads :
          (RaceAck(payload) /\ ParseSendAck(payload).ok /\ payload.status = "error")
             => /\ activeRunId' = 0
                /\ ~isStreaming'
                /\ errorMessage' = payload.summary
                /\ ~isSending' ]_vars

\* the error acknowledgement of a second send was processed before any chat
\* event arrived
C36_Witness ==
    /\ sendRace.run = 2 /\ sendRace.acked /\ ~sendRace.ended
    /\ sendRace.status = "error" /\ sendRace.summary = "quota"
    /\ errorMessage = "quota"
    /\ activeRunId = 0 /\ ~isStreaming
    /\ chatEvents = 0

\* C37: whatever the order of the chat.send acknowledgement and the chat
\* events of its run, once the acknowledgement and the terminal event of the
\* run have both been handled no run is tracked and the streaming flag is off.
C37_AckAndTerminalEventLeaveNoRun ==
    (sendRace.acked /\ sendRace.ended) => (activeRunId = 0 /\ ~isStreaming)

\* ======================= requests before the handshake =======================

\* the step transmits a request other than `connect` on a transport
TransmitsUserRequest ==
    /\ Len(reqs') > Len(reqs)
    /\ reqs'[Len(reqs')].sock # 0
    /\ reqs'[Len(reqs')].method # "connect"

\* C38: a request other than the handshake's connect request is transmitted
\* on a transport only after the handshake on that transport has succeeded.
C38_NoRequestBeforeHandshake ==
    [][ TransmitsUserRequest => socks[reqs'[Len(reqs')].sock].hsDone ]_vars

\* ======================= sessions.list parameters =======================

\* query.gatewayParams: absent, or an object of the SessionsListParams type
GatewayParamsInputs ==
    { JUndefined,
      JObject(<<>>),
      JObject(<< <<ListKey.limit, JNumber(1)>> >>),
      JObject(<< <<ListKey.includeDerivedTitles, JBool(TRUE)>>, <<ListKey.limit, JNumber(1)>> >>),
      JObject(<< <<ListKey.includeDerivedTitles, JBool(FALSE)>> >>),
      JObject(<< <<ListKey.includeLastMessage, JBool(FALSE)>> >>),
      JObject(<< <<ListKey.includeLastMessage, JUndefined>> >>) }

NextListParams ==
    \E search \in SearchTerms, gatewayParams \in GatewayParamsInputs :
        CallListSessionsWith(search, gatewayParams)

SpecListParams == InitSessions /\ [][NextListParams]_vars

IsTrue(value) == value.t = "boolean" /\ value.v = <<TRUE>>

\* C39: every sessions.list request of listSessions carries
\* includeDerivedTitles = true and includeLastMessage = true, whatever
\* gatewayParams the query holds.
C39_ListAlwaysAsksForTitlesAndLastMessage ==
    \A i \in DOMAIN listRequests :
        /\ IsTrue(Get(listRequests[i].params, ListKey.includeDerivedTitles))
        /\ IsTrue(Get(listRequests[i].params, ListKey.includeLastMessage))

\* what holds: the flags are true unless the caller's gatewayParams name them
C39_FlagsAreDefaults ==
    \A i \in DOMAIN listRequests :
        \A key \in {ListKey.includeDerivedTitles, ListKey.includeLastMessage} :
            \/ IsTrue(Get(listRequests[i].params, key))
            \/ /\ \E e \in DOMAIN listRequests[i].gatewayParams.v :
                     listRequests[i].gatewayParams.v[e][1] = key
               /\ Get(listRequests[i].params, key) = Get(listRequests[i].gatewayParams, key)

\* ======================= overlapping local calls =======================

MaxOverlap == 2

\* the calls whose interleavings are explored
OverlapCalls ==
    [op : {"setPinned"}, key : {SessionKeyA, SessionKeyB}, arg : {JBool(TRUE), JBool(FALSE)}]
        \cup [op : {"togglePinned"}, key : {SessionKeyA, SessionKeyB}, arg : {JUndefined}]
        \cup [op : {"setLocalSessionLabel"}, key : {SessionKeyA, SessionKeyB},
              arg : {JNull, JString(<<" ", "p", "r", "o", " ", "L", " ">>)}]

PinOps == {"setPinned", "togglePinned"}

OverlapCommit(pins, labels, calls, ws) ==
    /\ pinsItem' = pins
    /\ labelsItem' = labels
    /\ inflight' = calls
    /\ writes' = ws
    /\ UNCHANGED <<remoteRows, listed, lastLocal, gatewayCalls, listRequests, store0>>
    /\ UNCHANGED <<gatewayVars, chatVars, identityVars, paramVars, errorVars, serviceVars, authVars>>

\* the call is made: togglePinned has its first getPinnedKeys ahead, the two
\* setters the read of the item they are about to rewrite
OverlapCall(call) ==
    /\ Len(inflight) < MaxOverlap
    /\ OverlapCommit(pinsItem, labelsItem,
                     Append(inflight,
                            [pc |-> IF call.op = "togglePinned" THEN "start" ELSE "decided",
                             key |-> call.key, op |-> call.op, arg |-> call.arg,
                             read |-> JUndefined]),
                     writes)

\* togglePinned: `await this.getPinnedKeys()` returns and nextPinned is chosen
OverlapDecide(i) ==
    /\ i \in DOMAIN inflight
    /\ inflight[i].pc = "start"
    /\ OverlapCommit(pinsItem, labelsItem,
                     [inflight EXCEPT
                         ![i].arg = JBool(~Has(GetPinnedKeys(pinsItem), inflight[i].key)),
                         ![i].pc = "decided"],
                     writes)

\* setPinned / setLocalSessionLabel: `await this.store.getItem` returns
OverlapRead(i) ==
    /\ i \in DOMAIN inflight
    /\ inflight[i].pc = "decided"
    /\ OverlapCommit(pinsItem, labelsItem,
                     [inflight EXCEPT
                         ![i].read = IF inflight[i].op \in PinOps THEN pinsItem ELSE labelsItem,
                         ![i].pc = "loaded"],
                     writes)

\* mutant: the item written holds the targeted key only
WriteValue_OnlyTarget(call) ==
    IF call.op \in PinOps
    THEN PinsItemOf(IF call.arg.v[1] THEN <<call.key>> ELSE <<>>)
    ELSE SetLocalSessionLabel(JUndefined, call.key, call.arg)

\* the item the call passes to store.setItem, made of the item it has read
WriteValue(call) ==
    IF call.op \in PinOps
    THEN SetPinned(call.read, call.key, call.arg.v[1])
    ELSE SetLocalSessionLabel(call.read, call.key, call.arg)

\* setPinned / setLocalSessionLabel: `await this.store.setItem`
OverlapWrite(i) ==
    /\ i \in DOMAIN inflight
    /\ inflight[i].pc = "loaded"
    /\ LET value == WriteValue(inflight[i])
           item == IF inflight[i].op \in PinOps THEN "pins" ELSE "labels"
       IN OverlapCommit(IF item = "pins" THEN value ELSE pinsItem,
                        IF item = "labels" THEN value ELSE labelsItem,
                        [inflight EXCEPT ![i].pc = "done"],
                        Append(writes, [value |-> value, item |-> item, call |-> i]))

InitOverlap ==
    /\ GatewayInit /\ reconnectEnabled
    /\ ChatInit /\ IdentityIdle /\ ParamsIdle /\ ErrorsIdle /\ ServiceIdle /\ AuthIdle
    /\ remoteRows = <<>>
    /\ pinsItem \in StoredPins
    /\ labelsItem \in StoredLabels
    /\ listed = NotListed
    /\ lastLocal = NoLocalCall
    /\ gatewayCalls = <<>>
    /\ listRequests = <<>>
    /\ inflight = <<>>
    /\ writes = <<>>
    /\ store0 = [pins |-> pinsItem, labels |-> labelsItem]

NextOverlap ==
    \/ \E call \in OverlapCalls : OverlapCall(call)
    \/ \E i \in 1..MaxOverlap : OverlapDecide(i)
    \/ \E i \in 1..MaxOverlap : OverlapRead(i)
    \/ \E i \in 1..MaxOverlap : OverlapWrite(i)

SpecOverlap == InitOverlap /\ [][NextOverlap]_vars

\* the value of the last setItem on the item, or the item as it was at the start
LastWritten(item) ==
    LET ws == SelectSeq(writes, LAMBDA w : w.item = item)
    IN IF ws = <<>> THEN store0[item] ELSE ws[Len(ws)].value

\* no call made so far targets the key in the pins (in the labels)
UntargetedPin(key) ==
    \A i \in DOMAIN inflight : inflight[i].op \in PinOps => inflight[i].key # key
UntargetedLabel(key) ==
    \A i \in DOMAIN inflight : inflight[i].op \notin PinOps => inflight[i].key # key

\* C40: in any interleaving of overlapping setPinned, togglePinned and
\* setLocalSessionLabel calls, the stored pins and labels are each the whole
\* value of the last setItem one of the calls made on them (or the item as it
\* was), a key no call targets keeps its pin and its label, and calls on the
\* pins leave the labels item alone and calls on the labels the pins item.
C40_OverlappingLocalCalls ==
    /\ pinsItem = LastWritten("pins")
    /\ labelsItem = LastWritten("labels")
    /\ \A w \in DOMAIN writes :
          /\ writes[w].item = "pins"
                => /\ writes[w].value.t = "array"
                   /\ inflight[writes[w].call].op \in PinOps
                   /\ Has(GetPinnedKeys(writes[w].value), inflight[writes[w].call].key)
                         = inflight[writes[w].call].arg.v[1]
          /\ writes[w].item = "labels"
                => /\ writes[w].value.t = "object"
                   /\ inflight[writes[w].call].op \notin PinOps
    /\ \A key \in {SessionKeyA, SessionKeyB, SessionKeyC} :
          /\ UntargetedPin(key)
                => Has(GetPinnedKeys(pinsItem), key) = Has(GetPinnedKeys(store0.pins), key)
          /\ UntargetedLabel(key)
                => LabelOf(GetLocalSessionLabels(labelsItem), key)
                      = LabelOf(GetLocalSessionLabels(store0.labels), key)
    /\ (\A i \in DOMAIN inflight : inflight[i].op \notin PinOps) => pinsItem = store0.pins
    /\ (\A i \in DOMAIN inflight : inflight[i].op \in PinOps) => labelsItem = store0.labels

\* two setPinned calls on different keys have both read the pins before either
\* wrote them, both have written, and the pinned key neither targets is there
C40_Witness ==
    /\ Len(inflight) = 2 /\ Len(writes) = 2
    /\ inflight[1].op = "setPinned" /\ inflight[2].op = "setPinned"
    /\ inflight[1].key # inflight[2].key
    /\ inflight[1].arg.v = <<TRUE>> /\ inflight[2].arg.v = <<TRUE>>
    /\ inflight[1].read.t = "array" /\ inflight[1].read.v = store0.pins.v
    /\ inflight[2].read.t = "array" /\ inflight[2].read.v = store0.pins.v
    /\ Has(GetPinnedKeys(pinsItem), SessionKeyC)
    /\ ~Has(GetPinnedKeys(pinsItem), inflight[writes[1].call].key)

====
